---- MODULE Spec2Model ----
(***************************************************************************)
(* Model of the rpc_ts client: the gRPC-Web client stream (GrpcWebStream)   *)
(* and the retrying stream (RetryingStreamImpl).                            *)
(***************************************************************************)
EXTENDS Integers, Sequences, FiniteSets, TLC

\* ------------------------------------------------------------------ bounds
MaxMsgs == 3            \* messages a server sends before its trailer
MaxFramesPerChunk == 2  \* frames carried by one transport chunk
MaxCancels == 2         \* calls of cancel() on one stream
MaxStarts == 2          \* calls of start() on one stream
MaxAttempts == 4        \* calls of the stream factory by one retrying stream
MaxUpstreamMsgs == 2    \* messages emitted by the attempts of one retrying stream
MaxCallEvents == 4      \* events emitted by the stream of one unary call
MaxHandlerCalls == 3    \* calls of onReady and onMessage made by one handler
MaxSourceEvents == 4    \* events emitted by the source of one transformed stream
MaxHttpStatus == 599    \* the largest HTTP status of a response
MaxRetriesArg == 4      \* the largest retries given to getBackoffMs

\* ------------------------------------------------- GrpcWebStream variables
VARIABLES
  state,              \* GrpcWebStream.state
  events,             \* what GrpcWebStream has emitted, in order
  pendingChunkBytes,  \* GrpcWebStream.pendingChunkBytes
  transport,          \* this.transport: unset / idle / started / cancelled / ended
  requestContext,     \* the provideRequestContext() promise: none / pending / settled
  headers,            \* the onHeaders() call in flight (a record), or NoHeaders
  headersDelivered,   \* the transport has called onHeaders
  msgsSent,           \* message frames the transport has delivered
  trailerSent,        \* the transport has delivered the trailer frame
  thrown,             \* exceptions thrown out of start() or a transport callback
  startCalls,         \* calls of start()
  cancelCalls,        \* calls of cancel()
  cancelMark,         \* Len(events) right after the first cancel() made on a
                      \* started stream that had emitted no terminal event; 0 before
  wire                \* what the transport has brought: the headers, the
                      \* trailer, and how and when it ended

gvars == <<state, events, pendingChunkBytes, transport, requestContext, headers,
           headersDelivered, msgsSent, trailerSent, thrown, startCalls,
           cancelCalls, cancelMark, wire>>

\* ------------------------------------------- RetryingStreamImpl variables
VARIABLES
  rState,                 \* RetryingStreamImpl.state
  rEvents,                \* what the retrying stream has emitted, in order
  cancelCurrentStream,    \* RetryingStreamImpl.cancelCurrentStream is set
  retriesSinceLastReady,  \* RetryingStreamImpl.retriesSinceLastReady
  options,                \* RetryingStreamImpl.options (BackoffOptions)
  loop,                   \* asyncStart(): idle / awaiting / resolved / done / failed
  sleeping,               \* the error listener of the current attempt awaits sleep()
  upstream,               \* the current attempt: none / open / ready / error / complete / canceled
  getStreamCalls,         \* calls of the stream factory getStream()
  upstreamCancelCalls,    \* calls of cancel() on the current attempt
  upstreamMsgs,           \* messages the attempts have emitted so far
  upstreamLog,            \* what the attempts have emitted, in order
  upstreamErr,            \* the error the attempts of this factory fail with
  rStartCalls,            \* calls of start() on the retrying stream
  rCancelCalls,           \* calls of cancel() on the retrying stream
  cancelWhileOpen,        \* getStreamCalls at a cancel() made while the attempt was open; 0 before
  cancelInBackoff         \* getStreamCalls at a cancel() made during the backoff sleep; 0 before

rvars == <<rState, rEvents, cancelCurrentStream, retriesSinceLastReady, options,
           loop, sleeping, upstream, getStreamCalls, upstreamCancelCalls,
           upstreamMsgs, upstreamLog, upstreamErr, rStartCalls,
           rCancelCalls, cancelWhileOpen, cancelInBackoff>>

\* ------------------------------------------------- Service.call variables
VARIABLES
  callStream,   \* what the stream of the call has emitted, in order
  message,      \* the `message` local of call(): unset, or the first message
  promise       \* the promise call() returned: pending / fulfilled / rejected

cvars == <<callStream, message, promise>>

\* ------------------------------------------------ server route variables
VARIABLES
  route,          \* position of the route handler of registerGrpcWebRoutes
  methodKind,     \* the method called: unary / serverStream
  resp,           \* the express response: status, headers, body, flags
  reported,       \* the errors passed to options.reportError, in order
  streamStatus,   \* `status` (StreamStatus) of processServerStream
  handler,        \* the promise of the method handler: none / running / fulfilled / rejected
  streamPromise,  \* the promise processServerStream awaits
  handlerCalls,   \* the calls of onReady and onMessage made by the handler, in order
  failures,       \* the errors thrown or rejected while serving the call, in order
  request,        \* the HTTP request: method, Accept header, size of the body
  connectorCalls, \* calls of the server context connector
  sinkThrows,     \* options.reportError throws when it is called
  sinkLog         \* the 'Cannot capture error' lines safeCaptureError has logged

svars == <<route, methodKind, resp, reported, streamStatus, handler, streamPromise,
           handlerCalls, failures, request, connectorCalls, sinkThrows, sinkLog>>

\* ------------------------------------------- TransformingStream variables
VARIABLES
  tSource,         \* what the source stream has emitted, in order
  tSourceStarted,  \* source.start() has been called
  tEvents,         \* what the listeners of the transformed stream have received
  fnThrows         \* the messages on which fn throws

tvars == <<tSource, tSourceStarted, tEvents, fnThrows>>

\* ------------------------------------- status decoding and backoff variables
VARIABLES
  responseStatus,  \* the HTTP status of a response
  guessedType,     \* guessErrorTypeFromHttpStatus(responseStatus), once computed
  backoffOptions,  \* the BackoffOptions given to getBackoffMs
  backoffRetries,  \* the retries given to getBackoffMs
  backoffMs        \* getBackoffMs(backoffOptions, backoffRetries), once computed

fvars == <<responseStatus, guessedType, backoffOptions, backoffRetries, backoffMs>>

vars == <<gvars, rvars, cvars, svars, tvars, fvars>>

\* ------------------------------------------------------------------ events
Ev(t, v, e) == [type |-> t, v |-> v, err |-> e]

TerminalTypes == {"complete", "canceled", "error"}

IsTerminal(e) == e.type \in TerminalTypes

HasTerminal(evs) == \E i \in 1..Len(evs) : IsTerminal(evs[i])

RECURSIVE CountType(_, _)
CountType(evs, t) ==
  IF evs = <<>> THEN 0
  ELSE (IF Head(evs).type = t THEN 1 ELSE 0) + CountType(Tail(evs), t)

\* ------------------------------------------------------ gRPC status tables
RpcErrorType ==
  {"unknown", "canceled", "invalidArgument", "notFound", "alreadyExists",
   "resourceExhausted", "permissionDenied", "failedPrecondition",
   "unimplemented", "internal", "unavailable", "unauthenticated"}

errorTypesToGrpcStatuses ==
  [t \in RpcErrorType |->
     CASE t = "canceled" -> 1
       [] t = "unknown" -> 2
       [] t = "invalidArgument" -> 3
       [] t = "notFound" -> 5
       [] t = "alreadyExists" -> 6
       [] t = "permissionDenied" -> 7
       [] t = "resourceExhausted" -> 8
       [] t = "failedPrecondition" -> 9
       [] t = "unimplemented" -> 12
       [] t = "internal" -> 13
       [] t = "unavailable" -> 14
       [] t = "unauthenticated" -> 16]

\* _.fromPairs over the table above, with the `|| unknown` of its reader
grpcStatusesToErrorTypes(status) ==
  IF \E t \in RpcErrorType : errorTypesToGrpcStatuses[t] = status
  THEN CHOOSE t \in RpcErrorType : errorTypesToGrpcStatuses[t] = status
  ELSE "unknown"

\* errorTypesToHttpStatuses, as the pairs of the object literal in key order
errorTypesToHttpStatuses ==
  << <<"unknown", 500>>, <<"canceled", 500>>, <<"invalidArgument", 400>>,
     <<"notFound", 404>>, <<"alreadyExists", 409>>, <<"resourceExhausted", 429>>,
     <<"permissionDenied", 403>>, <<"failedPrecondition", 400>>,
     <<"unimplemented", 501>>, <<"internal", 500>>, <<"unavailable", 503>>,
     <<"unauthenticated", 401>> >>

\* httpStatusesToErrorTypes without its entry for 413
httpStatusesToErrorTypes_without413(status) ==
  LET pairs == errorTypesToHttpStatuses
      hits == {i \in 1..Len(pairs) : pairs[i][2] = status}
  IN  IF status \in {502, 504} THEN "unavailable"
      ELSE IF hits = {} THEN ""
      ELSE pairs[CHOOSE i \in hits : \A j \in hits : j <= i][1]

\* httpStatusesToErrorTypes[status]: _.fromPairs keeps the last pair of a
\* status; 413, 502 and 504 are added; "" when the status has no entry
httpStatusesToErrorTypes(status) ==
  LET pairs == errorTypesToHttpStatuses
      hits == {i \in 1..Len(pairs) : pairs[i][2] = status}
  IN  IF status = 413 THEN "invalidArgument"
      ELSE IF status \in {502, 504} THEN "unavailable"
      ELSE IF hits = {} THEN ""
      ELSE pairs[CHOOSE i \in hits : \A j \in hits : j <= i][1]

guessErrorTypeFromHttpStatus_alwaysUnknown(httpStatus) == "unknown"

guessErrorTypeFromHttpStatus(httpStatus) ==
  IF httpStatusesToErrorTypes(httpStatus) # ""
  THEN httpStatusesToErrorTypes(httpStatus)
  ELSE "unknown"

\* ------------------------------------------------ what the transport brings
HttpStatuses == {200, 404, 500}   \* statuses of the response headers
GrpcStatuses == {0, 5, 13}        \* grpc-status of headers and trailers (0: OK or absent)

NoHeaders == [status |-> 0, grpcStatus |-> 0, decodeOk |-> TRUE]

MessageFrame(n) == [chunkType |-> "MESSAGE", v |-> n, status |-> 0]
TrailerFrame(s) == [chunkType |-> "TRAILERS", v |-> 0, status |-> s]

\* the messages sent..sent+n-1, in order
MessageFrames(sent, n) == [i \in 1..n |-> MessageFrame(sent + i - 1)]

\* the chunks a well-formed server can deliver next: the next messages in
\* order, the trailer last, MaxFramesPerChunk frames at most
NextChunks(sent) ==
  LET left == MaxMsgs - sent
      Cap(n) == IF n < left THEN n ELSE left
  IN  { MessageFrames(sent, n) : n \in 1..Cap(MaxFramesPerChunk) }
      \cup { Append(MessageFrames(sent, n), TrailerFrame(s)) :
               n \in 0..Cap(MaxFramesPerChunk - 1), s \in GrpcStatuses }

MessagesIn(chunk) ==
  Cardinality({i \in 1..Len(chunk) : chunk[i].chunkType = "MESSAGE"})

HasTrailer(chunk) == \E i \in 1..Len(chunk) : chunk[i].chunkType = "TRAILERS"

\* ------------------------------------------------- GrpcWebStream's methods
St(st, evs) == [state |-> st, events |-> evs]

\* GrpcWebStream.onChunk: the frames of one chunk, in order
RECURSIVE onChunk(_, _, _)
onChunk(st, evs, frames) ==
  IF frames = <<>> THEN St(st, evs)
  ELSE LET f == Head(frames) IN
    IF f.chunkType = "MESSAGE"
    THEN onChunk(st, Append(evs, Ev("message", f.v, "")), Tail(frames))
    ELSE IF f.status # 0
    THEN onChunk("error",
                 Append(evs, Ev("error", 0, grpcStatusesToErrorTypes(f.status))),
                 Tail(frames))
    ELSE onChunk("trailersReceived", evs, Tail(frames))

end_completesWithoutTrailers(st, evs) ==
  IF st # "error" THEN St("complete", Append(evs, Ev("complete", 0, "")))
  ELSE St(st, evs)

\* GrpcWebStream.end
end(st, evs) ==
  IF st = "trailersReceived" THEN St("complete", Append(evs, Ev("complete", 0, "")))
  ELSE IF st # "error" THEN St(st, Append(evs, Ev("error", 0, "unavailable")))
  ELSE St(st, evs)

\* the loop of ready() over pendingChunkBytes
RECURSIVE replayPending(_, _, _)
replayPending(st, evs, pending) ==
  IF pending = <<>> THEN St(st, evs)
  ELSE LET r == onChunk(st, evs, Head(pending))
       IN  replayPending(r.state, r.events, Tail(pending))

ready_skipsPending(st, evs, pending) ==
  LET r == St("ready", Append(evs, Ev("ready", 0, "")))
  IN  IF st = "endedBeforeReady" THEN end(r.state, r.events) ELSE r

\* ready, without the end that was put off
ready_forgetsEnd(st, evs, pending) ==
  replayPending("ready", Append(evs, Ev("ready", 0, "")), pending)

\* ready, emitting the buffered messages before the ready event
ready_replaysFirst(st, evs, pending) ==
  LET r == replayPending("ready", evs, pending)
      e == St(r.state, Append(r.events, Ev("ready", 0, "")))
  IN  IF st = "endedBeforeReady" THEN end(e.state, e.events) ELSE e

\* GrpcWebStream.ready
ready(st, evs, pending) ==
  LET endedBeforeReady == (st = "endedBeforeReady")
      r == replayPending("ready", Append(evs, Ev("ready", 0, "")), pending)
  IN  IF endedBeforeReady THEN end(r.state, r.events) ELSE r

\* the onChunk callback given to the transport, once the headers are decoded
onChunkCallback(st, evs, chunk) ==
  IF st = "ready" THEN onChunk(st, evs, chunk) ELSE St(st, evs)

\* the onEnd callback given to the transport, without a transport error
onEndCallback(st, evs) ==
  IF st = "error" THEN St(st, evs) ELSE end(st, evs)

\* transport.cancel(): a started transport stops calling back
transportCancel(t) == IF t = "started" THEN "cancelled" ELSE t

\* nothing received yet
NoWire ==
  [headers |-> NoHeaders, trailer |-> FALSE, trailerStatus |-> 0,
   end |-> "none", endAt |-> 0, endLive |-> FALSE]

GInit ==
  /\ state = "initial"
  /\ events = <<>>
  /\ pendingChunkBytes = <<>>
  /\ transport = "unset"
  /\ requestContext = "none"
  /\ headers = NoHeaders
  /\ headersDelivered = FALSE
  /\ msgsSent = 0
  /\ trailerSent = FALSE
  /\ thrown = 0
  /\ startCalls = 0
  /\ cancelCalls = 0
  /\ cancelMark = 0
  /\ wire = NoWire

\* GrpcWebStream.start(); getTransport() may return an Error
GrpcWebStream_start ==
  /\ UNCHANGED <<rvars, cvars, svars, tvars, fvars>>
  /\ startCalls < MaxStarts
  /\ startCalls' = startCalls + 1
  /\ IF state # "initial"
     THEN \* ensureState throws
          /\ thrown' = thrown + 1
          /\ UNCHANGED <<state, events, transport, requestContext>>
     ELSE \E transportIsError \in BOOLEAN :
          IF transportIsError
          THEN /\ state' = "error"
               /\ events' = Append(events, Ev("error", 0, "ClientTransportError"))
               /\ UNCHANGED <<transport, requestContext, thrown>>
          ELSE /\ state' = "waitingForRequest"
               /\ transport' = "idle"
               /\ requestContext' = "pending"
               /\ UNCHANGED <<events, thrown>>
  /\ UNCHANGED <<pendingChunkBytes, headers, headersDelivered, msgsSent,
                 trailerSent, cancelCalls, cancelMark, wire>>

\* provideRequestContext() fulfils: the .then of start()
RequestContextProvided ==
  /\ UNCHANGED <<rvars, cvars, svars, tvars, fvars>>
  /\ requestContext = "pending"
  /\ requestContext' = "settled"
  /\ transport' = "started"
  /\ state' = "started"
  /\ UNCHANGED <<events, pendingChunkBytes, headers, headersDelivered, msgsSent,
                 trailerSent, thrown, startCalls, cancelCalls, cancelMark, wire>>

\* RequestContextFailed, with the transport started before the request
\* context is provided
RequestContextFailed_startsTransport ==
  /\ UNCHANGED <<rvars, cvars, svars, tvars, fvars>>
  /\ requestContext = "pending"
  /\ requestContext' = "settled"
  /\ transport' = "started"
  /\ state' = "error"
  /\ events' = Append(events, Ev("error", 0, "RequestContextError"))
  /\ UNCHANGED <<pendingChunkBytes, headers, headersDelivered,
                 msgsSent, trailerSent, thrown, startCalls, cancelCalls,
                 cancelMark, wire>>

\* provideRequestContext() rejects: the .catch of start()
RequestContextFailed ==
  /\ UNCHANGED <<rvars, cvars, svars, tvars, fvars>>
  /\ requestContext = "pending"
  /\ requestContext' = "settled"
  /\ state' = "error"
  /\ events' = Append(events, Ev("error", 0, "RequestContextError"))
  /\ UNCHANGED <<pendingChunkBytes, transport, headers, headersDelivered,
                 msgsSent, trailerSent, thrown, startCalls, cancelCalls,
                 cancelMark, wire>>

\* GrpcWebStream.cancel()
GrpcWebStream_cancel ==
  /\ UNCHANGED <<rvars, cvars, svars, tvars, fvars>>
  /\ cancelCalls < MaxCancels
  /\ cancelCalls' = cancelCalls + 1
  /\ transport' = IF transport # "unset" /\ state = "started"
                  THEN transportCancel(transport) ELSE transport
  /\ state' = "canceled"
  /\ events' = Append(events, Ev("canceled", 0, ""))
  /\ cancelMark' = IF cancelMark = 0 /\ startCalls > 0 /\ ~HasTerminal(events)
                   THEN Len(events) + 1 ELSE cancelMark
  /\ UNCHANGED <<pendingChunkBytes, requestContext, headers, headersDelivered,
                 msgsSent, trailerSent, thrown, startCalls, wire>>

\* the transport calls onHeaders: onHeaders() runs up to its await
TransportHeaders ==
  /\ UNCHANGED <<rvars, cvars, svars, tvars, fvars>>
  /\ transport = "started"
  /\ ~headersDelivered
  /\ headersDelivered' = TRUE
  /\ \E s \in HttpStatuses, g \in GrpcStatuses, ok \in BOOLEAN :
       /\ headers' = [status |-> s, grpcStatus |-> g, decodeOk |-> ok]
       /\ wire' = [wire EXCEPT !.headers = headers']
  /\ UNCHANGED <<state, events, pendingChunkBytes, transport, requestContext,
                 msgsSent, trailerSent, thrown, startCalls, cancelCalls,
                 cancelMark>>

\* decodeResponseContext() settles: the rest of onHeaders() and the
\* .then/.catch of the onHeaders callback
HeadersDecoded ==
  /\ UNCHANGED <<rvars, cvars, svars, tvars, fvars>>
  /\ headers # NoHeaders
  /\ headers' = NoHeaders
  /\ IF ~headers.decodeOk
     THEN /\ events' = Append(events, Ev("error", 0, "ResponseContextDecodingError"))
          /\ UNCHANGED <<state, transport>>
     ELSE IF headers.grpcStatus # 0
     THEN /\ transport' = transportCancel(transport)
          /\ events' = Append(events,
                 Ev("error", 0, grpcStatusesToErrorTypes(headers.grpcStatus)))
          /\ UNCHANGED state
     ELSE IF headers.status # 200
     THEN /\ events' = Append(events,
                 Ev("error", 0, guessErrorTypeFromHttpStatus(headers.status)))
          /\ UNCHANGED <<state, transport>>
     ELSE IF state \in {"started", "endedBeforeReady"}
     THEN LET r == ready(state, events, pendingChunkBytes)
          IN  /\ state' = r.state
              /\ events' = r.events
              /\ UNCHANGED transport
     ELSE IF state \in {"canceled", "error"}
     THEN UNCHANGED <<state, events, transport>>
     ELSE \* unexpectedState() throws inside .then: .catch emits it
          /\ events' = Append(events, Ev("error", 0, "unexpectedState"))
          /\ UNCHANGED <<state, transport>>
  /\ UNCHANGED <<pendingChunkBytes, requestContext, headersDelivered, msgsSent,
                 trailerSent, thrown, startCalls, cancelCalls, cancelMark, wire>>

\* the transport calls onChunk
TransportChunk ==
  /\ UNCHANGED <<rvars, cvars, svars, tvars, fvars>>
  /\ transport = "started"
  /\ headersDelivered
  /\ ~trailerSent
  /\ \E chunk \in NextChunks(msgsSent) :
       /\ msgsSent' = msgsSent + MessagesIn(chunk)
       /\ trailerSent' = HasTrailer(chunk)
       /\ wire' = IF HasTrailer(chunk)
                  THEN [wire EXCEPT !.trailer = TRUE,
                                    !.trailerStatus = chunk[Len(chunk)].status]
                  ELSE wire
       /\ IF state = "started"
          THEN /\ pendingChunkBytes' = Append(pendingChunkBytes, chunk)
               /\ UNCHANGED <<state, events, thrown>>
          ELSE IF state = "ready"
          THEN LET r == onChunk(state, events, chunk)
               IN  /\ state' = r.state
                   /\ events' = r.events
                   /\ UNCHANGED <<pendingChunkBytes, thrown>>
          ELSE IF state \in {"canceled", "error"}
          THEN UNCHANGED <<state, events, pendingChunkBytes, thrown>>
          ELSE \* unexpectedState() throws into the transport
               /\ thrown' = thrown + 1
               /\ UNCHANGED <<state, events, pendingChunkBytes>>
  /\ UNCHANGED <<transport, requestContext, headers, headersDelivered,
                 startCalls, cancelCalls, cancelMark>>

\* the transport calls onEnd, with or without an error
TransportEnd ==
  /\ UNCHANGED <<rvars, cvars, svars, tvars, fvars>>
  /\ transport = "started"
  /\ transport' = "ended"
  /\ \E err \in BOOLEAN :
       /\ ~err => headersDelivered
       /\ wire' = [wire EXCEPT !.end = IF err THEN "err" ELSE "ok",
                               !.endAt = Len(events),
                               !.endLive = ~HasTerminal(events)]
       /\ IF state = "error"
          THEN UNCHANGED <<state, events>>
          ELSE IF err
          THEN /\ state' = "error"
               /\ events' = Append(events, Ev("error", 0, "transport"))
          ELSE IF state = "started"
          THEN /\ state' = "endedBeforeReady"
               /\ UNCHANGED events
          ELSE LET r == end(state, events)
               IN  /\ state' = r.state
                   /\ events' = r.events
  /\ UNCHANGED <<pendingChunkBytes, requestContext, headers, headersDelivered,
                 msgsSent, trailerSent, thrown, startCalls, cancelCalls,
                 cancelMark>>

GNext ==
  \/ GrpcWebStream_start
  \/ RequestContextProvided
  \/ RequestContextFailed
  \/ GrpcWebStream_cancel
  \/ TransportHeaders
  \/ HeadersDecoded
  \/ TransportChunk
  \/ TransportEnd

\* ------------------------------------------------------- RetryingStreamImpl
REv(t, v, e, n, a) == [type |-> t, v |-> v, err |-> e, n |-> n, abandoned |-> a]

UpEv(t, v, e, k) == [type |-> t, v |-> v, err |-> e, attempt |-> k]

\* the errors an attempt can emit
UpstreamErrors ==
  {"Error", "ClientProtocolError", "ClientRpcError_invalidArgument"}

IsClientRpcError(err) ==
  err \in {"ClientRpcError_invalidArgument"}

\* err.status: ClientRpcError declares errorType, msg and context, no status
Undefined == -1
errStatus(err) == Undefined

DEFAULT_BACKOFF_OPTIONS == [maxRetries |-> -1, statusCodesToIgnore |-> {}]

\* the options a caller passes to retryStream(), over the defaults
BackoffOptions ==
  {DEFAULT_BACKOFF_OPTIONS}
  \cup [maxRetries : {0, 1, 3}, statusCodesToIgnore : {{}, {3}}]

\* abandons, giving up one error too late
abandons_oneTooLate(opts, retries, err) ==
  \/ (opts.maxRetries >= 0 /\ retries > opts.maxRetries)
  \/ (IsClientRpcError(err) /\ errStatus(err) \in opts.statusCodesToIgnore)

\* the condition of the error listener: give up on this error
abandons(opts, retries, err) ==
  \/ (opts.maxRetries >= 0 /\ retries >= opts.maxRetries)
  \/ (IsClientRpcError(err) /\ errStatus(err) \in opts.statusCodesToIgnore)

\* retriesOnReady, leaving the counter as it is
retriesOnReady_keeps(retries) == retries

\* the ready listener's assignment to retriesSinceLastReady
retriesOnReady(retries) == 0

\* loopEnds, going on after canceled
loopEnds_notOnCanceled(st) == st \in {"complete", "abandoned"}

\* the condition that ends the loop of asyncStart()
loopEnds(st) == st \in {"complete", "canceled", "abandoned"}

\* forwardsCancel, never reaching the attempt
forwardsCancel_never(ccs) == FALSE

\* cancel(): this.cancelCurrentStream && this.cancelCurrentStream()
forwardsCancel(ccs) == ccs

\* forwardsMessage, whatever the state of the wrapper
forwardsMessage_always(st) == TRUE

\* the condition of the message listener: this.state === ready
forwardsMessage(st) == st = "ready"

\* cb(): accept of the promise asyncStart() awaits
cb(l) == IF l = "awaiting" THEN "resolved" ELSE l

UpstreamLive == upstream \in {"open", "ready"}

RInitOf(opts) ==
  /\ rState = "initial"
  /\ rEvents = <<>>
  /\ cancelCurrentStream = FALSE
  /\ retriesSinceLastReady = 0
  /\ options = opts
  /\ loop = "idle"
  /\ sleeping = FALSE
  /\ upstream = "none"
  /\ getStreamCalls = 0
  /\ upstreamCancelCalls = 0
  /\ upstreamMsgs = 0
  /\ upstreamLog = <<>>
  /\ rStartCalls = 0
  /\ rCancelCalls = 0
  /\ cancelWhileOpen = 0
  /\ cancelInBackoff = 0

RInitWith(opts, err) ==
  /\ RInitOf(opts)
  /\ upstreamErr = err

RInit == \E opts \in BackoffOptions, err \in UpstreamErrors : RInitWith(opts, err)

\* RetryingStreamImpl.start(): asyncStart() up to its first await
RetryingStream_start ==
  /\ UNCHANGED <<gvars, cvars, svars, tvars, fvars, upstreamErr>>
  /\ rStartCalls < MaxStarts
  /\ rStartCalls' = rStartCalls + 1
  /\ IF rState # "initial"
     THEN \* ensureState throws inside asyncStart(): its promise rejects
          /\ loop' = IF loop = "idle" THEN "failed" ELSE loop
          /\ UNCHANGED <<rState, cancelCurrentStream, upstream, getStreamCalls,
                         upstreamCancelCalls>>
     ELSE /\ rState' = "started"
          /\ getStreamCalls' = getStreamCalls + 1
          /\ cancelCurrentStream' = TRUE
          /\ upstream' = "open"
          /\ upstreamCancelCalls' = 0
          /\ loop' = "awaiting"
  /\ UNCHANGED <<rEvents, retriesSinceLastReady, options, sleeping, upstreamMsgs,
                 upstreamLog, rCancelCalls, cancelWhileOpen, cancelInBackoff>>

\* asyncStart() after its await: the next turn of the loop
asyncStart_loop ==
  /\ UNCHANGED <<gvars, cvars, svars, tvars, fvars, upstreamErr>>
  /\ loop = "resolved"
  /\ IF loopEnds(rState)
     THEN /\ loop' = "done"
          /\ cancelCurrentStream' = FALSE
          /\ UNCHANGED <<upstream, getStreamCalls, upstreamCancelCalls, sleeping>>
     ELSE /\ getStreamCalls < MaxAttempts
          /\ getStreamCalls' = getStreamCalls + 1
          /\ cancelCurrentStream' = TRUE
          /\ upstream' = "open"
          /\ upstreamCancelCalls' = 0
          /\ sleeping' = FALSE
          /\ loop' = "awaiting"
  /\ UNCHANGED <<rState, rEvents, retriesSinceLastReady, options, upstreamMsgs,
                 upstreamLog, rStartCalls, rCancelCalls, cancelWhileOpen,
                 cancelInBackoff>>

\* the attempt emits ready: the ready listener of attempt()
UpstreamReady ==
  /\ UNCHANGED <<gvars, cvars, svars, tvars, fvars, upstreamErr>>
  /\ upstream = "open"
  /\ upstream' = "ready"
  /\ upstreamLog' = Append(upstreamLog, UpEv("ready", 0, "", getStreamCalls))
  /\ rState' = "ready"
  /\ rEvents' = Append(rEvents, REv("ready", 0, "", 0, FALSE))
  /\ retriesSinceLastReady' = retriesOnReady(retriesSinceLastReady)
  /\ UNCHANGED <<cancelCurrentStream, options, loop, sleeping, getStreamCalls,
                 upstreamCancelCalls, upstreamMsgs, rStartCalls, rCancelCalls,
                 cancelWhileOpen, cancelInBackoff>>

\* the attempt emits a message: the message listener of attempt()
UpstreamMessage ==
  /\ UNCHANGED <<gvars, cvars, svars, tvars, fvars, upstreamErr>>
  /\ UpstreamLive
  /\ upstreamMsgs < MaxUpstreamMsgs
  /\ upstreamMsgs' = upstreamMsgs + 1
  /\ upstreamLog' = Append(upstreamLog, UpEv("message", upstreamMsgs, "", getStreamCalls))
  /\ rEvents' = IF forwardsMessage(rState)
                THEN Append(rEvents, REv("message", upstreamMsgs, "", 0, FALSE))
                ELSE rEvents
  /\ UNCHANGED <<rState, cancelCurrentStream, retriesSinceLastReady, options,
                 loop, sleeping, upstream, getStreamCalls, upstreamCancelCalls,
                 rStartCalls, rCancelCalls, cancelWhileOpen, cancelInBackoff>>

\* the attempt emits complete: the complete listener of attempt()
UpstreamComplete ==
  /\ UNCHANGED <<gvars, cvars, svars, tvars, fvars, upstreamErr>>
  /\ UpstreamLive
  /\ upstream' = "complete"
  /\ upstreamLog' = Append(upstreamLog, UpEv("complete", 0, "", getStreamCalls))
  /\ rState' = "complete"
  /\ rEvents' = Append(rEvents, REv("complete", 0, "", 0, FALSE))
  /\ loop' = cb(loop)
  /\ UNCHANGED <<cancelCurrentStream, retriesSinceLastReady, options, sleeping,
                 getStreamCalls, upstreamCancelCalls, upstreamMsgs, rStartCalls,
                 rCancelCalls, cancelWhileOpen, cancelInBackoff>>

\* UpstreamError, giving up without the retryingError event
UpstreamError_errorOnly ==
  /\ UNCHANGED <<gvars, cvars, svars, tvars, fvars, upstreamErr>>
  /\ UpstreamLive
  /\ LET err == upstreamErr IN
       /\ upstreamLog' = Append(upstreamLog, UpEv("error", 0, err, getStreamCalls))
       /\ IF abandons(options, retriesSinceLastReady, err)
          THEN /\ rState' = "abandoned"
               /\ rEvents' = Append(rEvents, REv("error", 0, err, 0, FALSE))
               /\ loop' = cb(loop)
               /\ UNCHANGED <<sleeping, retriesSinceLastReady>>
          ELSE /\ rState' = "started"
               /\ rEvents' = Append(rEvents,
                    REv("retryingError", 0, err, retriesSinceLastReady, FALSE))
               /\ retriesSinceLastReady' = retriesSinceLastReady + 1
               /\ sleeping' = TRUE
               /\ UNCHANGED loop
  /\ upstream' = "error"
  /\ UNCHANGED <<cancelCurrentStream, options, getStreamCalls,
                 upstreamCancelCalls, upstreamMsgs, rStartCalls, rCancelCalls,
                 cancelWhileOpen, cancelInBackoff>>

\* the attempt emits error: the error listener of attempt() up to its await
UpstreamError ==
  /\ UNCHANGED <<gvars, cvars, svars, tvars, fvars, upstreamErr>>
  /\ UpstreamLive
  /\ LET err == upstreamErr IN
       /\ upstreamLog' = Append(upstreamLog, UpEv("error", 0, err, getStreamCalls))
       /\ IF abandons(options, retriesSinceLastReady, err)
          THEN /\ rState' = "abandoned"
               /\ rEvents' = rEvents \o
                    << REv("retryingError", 0, err, retriesSinceLastReady, TRUE),
                       REv("error", 0, err, 0, FALSE) >>
               /\ loop' = cb(loop)
               /\ UNCHANGED <<sleeping, retriesSinceLastReady>>
          ELSE /\ rState' = "started"
               /\ rEvents' = Append(rEvents,
                    REv("retryingError", 0, err, retriesSinceLastReady, FALSE))
               /\ retriesSinceLastReady' = retriesSinceLastReady + 1
               /\ sleeping' = TRUE
               /\ UNCHANGED loop
  /\ upstream' = "error"
  /\ UNCHANGED <<cancelCurrentStream, options, getStreamCalls,
                 upstreamCancelCalls, upstreamMsgs, rStartCalls, rCancelCalls,
                 cancelWhileOpen, cancelInBackoff>>

\* sleep() of the error listener is over: cb()
BackoffElapsed ==
  /\ UNCHANGED <<gvars, cvars, svars, tvars, fvars, upstreamErr>>
  /\ sleeping
  /\ sleeping' = FALSE
  /\ loop' = cb(loop)
  /\ UNCHANGED <<rState, rEvents, cancelCurrentStream, retriesSinceLastReady,
                 options, upstream, getStreamCalls, upstreamCancelCalls,
                 upstreamMsgs, upstreamLog, rStartCalls, rCancelCalls,
                 cancelWhileOpen, cancelInBackoff>>

\* the attempt emits canceled by itself: the canceled listener of attempt()
UpstreamCanceled ==
  /\ UNCHANGED <<gvars, cvars, svars, tvars, fvars, upstreamErr>>
  /\ UpstreamLive
  /\ upstream' = "canceled"
  /\ upstreamLog' = Append(upstreamLog, UpEv("canceled", 0, "", getStreamCalls))
  /\ rState' = "canceled"
  /\ rEvents' = Append(rEvents, REv("canceled", 0, "", 0, FALSE))
  /\ loop' = cb(loop)
  /\ UNCHANGED <<cancelCurrentStream, retriesSinceLastReady, options, sleeping,
                 getStreamCalls, upstreamCancelCalls, upstreamMsgs, rStartCalls,
                 rCancelCalls, cancelWhileOpen, cancelInBackoff>>

\* RetryingStreamImpl.cancel(); the cancel() of an attempt emits canceled,
\* which runs the canceled listener of attempt()
RetryingStream_cancel ==
  /\ UNCHANGED <<gvars, cvars, svars, tvars, fvars, upstreamErr>>
  /\ rCancelCalls < MaxCancels
  /\ rCancelCalls' = rCancelCalls + 1
  /\ cancelWhileOpen' = IF cancelWhileOpen = 0 /\ UpstreamLive
                        THEN getStreamCalls ELSE cancelWhileOpen
  /\ cancelInBackoff' = IF cancelInBackoff = 0 /\ sleeping /\ upstream = "error"
                        THEN getStreamCalls ELSE cancelInBackoff
  /\ rState' = "canceled"
  /\ IF forwardsCancel(cancelCurrentStream)
     THEN /\ upstreamCancelCalls' = upstreamCancelCalls + 1
          /\ upstream' = IF UpstreamLive THEN "canceled" ELSE upstream
          /\ upstreamLog' = Append(upstreamLog, UpEv("canceled", 0, "", getStreamCalls))
          /\ rEvents' = Append(rEvents, REv("canceled", 0, "", 0, FALSE))
          /\ loop' = cb(loop)
     ELSE UNCHANGED <<upstreamCancelCalls, upstream, upstreamLog, rEvents, loop>>
  /\ UNCHANGED <<cancelCurrentStream, retriesSinceLastReady, options, sleeping,
                 getStreamCalls, upstreamMsgs, rStartCalls>>

RNext ==
  \/ RetryingStream_start
  \/ asyncStart_loop
  \/ UpstreamReady
  \/ UpstreamMessage
  \/ UpstreamComplete
  \/ UpstreamError
  \/ BackoffElapsed
  \/ UpstreamCanceled
  \/ RetryingStream_cancel

\* ------------------------------------------------------------ Service.call
\* the errors the stream of a call can emit
StreamErrors == {"Error", "ClientRpcError_unavailable"}

\* the messages the stream of a call can emit ({response, responseContext})
StreamMessages == {0, 1}

Pending == [status |-> "pending", v |-> 0, err |-> "", errorType |-> "", msg |-> ""]

Fulfilled(v) == [status |-> "fulfilled", v |-> v, err |-> "", errorType |-> "", msg |-> ""]

Rejected(err, errorType, msg) ==
  [status |-> "rejected", v |-> 0, err |-> err, errorType |-> errorType, msg |-> msg]

\* accept() and reject() of a promise: the first one settles it
settle(p, outcome) == IF p.status = "pending" THEN outcome ELSE p

\* new ClientRpcError(errorType, msg, context)
ClientRpcError(errorType, msg) == Rejected("ClientRpcError", errorType, msg)

\* new ClientRpcError(0, RpcErrorType.canceled), the rejection of the
\* canceled listener
canceledError == ClientRpcError("0", "canceled")

NoMessage == [set |-> FALSE, v |-> 0]

\* Service.call(): the promise is created and the stream started
CInit ==
  /\ callStream = <<>>
  /\ message = NoMessage
  /\ promise = Pending

\* the listeners call() registers on its stream, run on one event e of the
\* stream: c is the `message` local and the promise before, the result is
\* both after; call() listens to message, error, complete and canceled
callListeners(c, e) ==
  CASE e.type = "message" ->
         IF c.message.set
         THEN [c EXCEPT !.promise =
                 settle(@, Rejected("ClientProtocolError", "", "more than one message"))]
         ELSE [c EXCEPT !.message = [set |-> TRUE, v |-> e.v]]
    [] e.type = "error" ->
         [c EXCEPT !.promise = settle(@, Rejected(e.err, "", ""))]
    [] e.type = "complete" ->
         [c EXCEPT !.promise =
            IF ~c.message.set
            THEN settle(@, Rejected("ClientProtocolError", "", "no message"))
            ELSE settle(@, Fulfilled(c.message.v))]
    [] e.type = "canceled" ->
         [c EXCEPT !.promise = settle(@, canceledError)]
    [] OTHER -> c

\* the stream of the call emits e: its listeners run
Emitted(e) ==
  LET c == callListeners([message |-> message, promise |-> promise], e)
  IN  /\ callStream' = Append(callStream, e)
      /\ message' = c.message
      /\ promise' = c.promise

\* call() over a stream that has emitted evs: the listeners run on each event
\* in order
RECURSIVE callOver(_, _)
callOver(c, evs) ==
  IF evs = <<>> THEN c ELSE callOver(callListeners(c, Head(evs)), Tail(evs))

\* withRetry().service().call(): the stream of the call is the retrying
\* stream, of which call() hears message, error, complete and canceled
retryingCall(evs) == callOver([message |-> NoMessage, promise |-> Pending], evs)

\* the 'message' listener of call()
Call_onMessage ==
  /\ UNCHANGED <<gvars, rvars, svars, tvars, fvars>>
  /\ Len(callStream) < MaxCallEvents
  /\ \E v \in StreamMessages : Emitted(Ev("message", v, ""))

\* the 'error' listener of call()
Call_onError ==
  /\ UNCHANGED <<gvars, rvars, svars, tvars, fvars>>
  /\ Len(callStream) < MaxCallEvents
  /\ \E e \in StreamErrors : Emitted(Ev("error", 0, e))

\* the 'complete' listener of call()
Call_onComplete ==
  /\ UNCHANGED <<gvars, rvars, svars, tvars, fvars>>
  /\ Len(callStream) < MaxCallEvents
  /\ Emitted(Ev("complete", 0, ""))

\* the 'canceled' listener of call()
Call_onCanceled ==
  /\ UNCHANGED <<gvars, rvars, svars, tvars, fvars>>
  /\ Len(callStream) < MaxCallEvents
  /\ Emitted(Ev("canceled", 0, ""))

CNext ==
  \/ Call_onMessage
  \/ Call_onError
  \/ Call_onComplete
  \/ Call_onCanceled

\* ------------------------------------------------------------ header values
\* header values are sequences of characters: "a" is unreserved, " " and "%"
\* are not
encodeChar_asIs(c) == <<c>>

\* encodeURIComponent on one character
encodeChar(c) ==
  CASE c = " " -> <<"%", "2", "0">>
    [] c = "%" -> <<"%", "2", "5">>
    [] OTHER -> <<c>>

\* encodeHeaderValue: encodeURIComponent
RECURSIVE encodeHeaderValue(_)
encodeHeaderValue(value) ==
  IF value = <<>> THEN <<>>
  ELSE encodeChar(Head(value)) \o encodeHeaderValue(Tail(value))

decodeEscape_unknown(x, y) == "?"

\* decodeURIComponent on one escape sequence %XY
decodeEscape(x, y) ==
  CASE x = "2" /\ y = "0" -> " "
    [] x = "2" /\ y = "5" -> "%"
    [] OTHER -> "?"

\* decodeHeaderValue: decodeURIComponent
RECURSIVE decodeHeaderValue(_)
decodeHeaderValue(encodedValue) ==
  IF encodedValue = <<>> THEN <<>>
  ELSE IF Head(encodedValue) = "%" /\ Len(encodedValue) >= 3
  THEN <<decodeEscape(encodedValue[2], encodedValue[3])>>
         \o decodeHeaderValue(SubSeq(encodedValue, 4, Len(encodedValue)))
  ELSE <<Head(encodedValue)>> \o decodeHeaderValue(Tail(encodedValue))

\* ------------------------------------------------------------ server errors
SrvErr(class, errorType, msg, transmitted) ==
  [class |-> class, errorType |-> errorType, message |-> msg,
   unsafeTransmittedMessage |-> transmitted]

\* the internal messages of errors (never meant for the client)
InternalMessages == {<<>>, <<"s">>}

\* the unsafeTransmittedMessage of a ServerRpcError; <<>> when there is none
TransmittedMessages == {<<>>, <<"a">>, <<"a", " ", "%">>}

ServerRpcErrors ==
  { SrvErr("ServerRpcError", k, m, t) :
      k \in RpcErrorType, m \in InternalMessages, t \in TransmittedMessages }

\* what a handler, a codec or a context connector can throw
ThrownErrors == ServerRpcErrors \cup { SrvErr("Error", "", <<"s">>, <<>>) }

HandlerProtocolError(msg) == SrvErr("HandlerProtocolError", "", msg, <<>>)

ServerTransportError(cause) ==
  SrvErr("ServerTransportError", "", cause.message, <<>>)

\* `if (err instanceof ServerError) throw err; throw new ServerTransportError(err)`
asServerError(err) ==
  IF err.class \in {"ServerRpcError", "HandlerProtocolError", "ServerTransportError"}
  THEN err ELSE ServerTransportError(err)

\* --------------------------------------------------------- gRPC-Web errors
\* a grpc.Metadata restricted to grpc-status and grpc-message; status 0 and
\* message <<>> stand for an absent entry
Metadata(grpcStatus, grpcMessage) == [status |-> grpcStatus, message |-> grpcMessage]

EmptyMetadata == Metadata(0, <<>>)

GrpcWebError(errorType, msg) == [errorType |-> errorType, message |-> msg]

\* errorTypesToHttpStatuses[errorType]
httpStatusOf(errorType) ==
  LET pairs == errorTypesToHttpStatuses
  IN  pairs[CHOOSE i \in 1..Len(pairs) : pairs[i][1] = errorType][2]

toGrpcWebError_transmitsMessage(err) ==
  IF err.class = "ServerRpcError"
  THEN GrpcWebError(err.errorType, err.message)
  ELSE GrpcWebError("internal", err.message)

\* the GrpcWebError built from an error, in getGrpcWebErrorFromError and in
\* the catch of processServerStream
toGrpcWebError(err) ==
  IF err.class = "ServerRpcError"
  THEN GrpcWebError(err.errorType, err.unsafeTransmittedMessage)
  ELSE GrpcWebError("internal", <<>>)

getGrpcWebErrorFromError(err) ==
  [status |-> IF err.class = "ServerRpcError" THEN httpStatusOf(err.errorType)
              ELSE 500,
   grpcWebError |-> toGrpcWebError(err)]

getMetadataFromGrpcWebError(error) ==
  Metadata(errorTypesToGrpcStatuses[error.errorType],
           IF error.message # <<>> THEN encodeHeaderValue(error.message) ELSE <<>>)

NoGrpcWebError == GrpcWebError("", <<>>)

\* null (NoGrpcWebError) when the RPC succeeded
getGrpcWebErrorFromMetadata(metadata) ==
  IF metadata.status = 0 THEN NoGrpcWebError
  ELSE GrpcWebError(grpcStatusesToErrorTypes(metadata.status),
                    decodeHeaderValue(metadata.message))

\* `non-200 HTTP status code (${status})`
nonOkMessage(status) == <<"non-200 HTTP status code (", ToString(status), ")">>

\* no error: onHeaders() returns the response context
NoClientError == ClientRpcError("", <<>>)

\* GrpcWebStream.onHeaders once the response context is decoded: the
\* ClientRpcError it throws for the headers and the HTTP status of a response
onHeaders(metadata, status) ==
  LET error == getGrpcWebErrorFromMetadata(metadata)
  IN  IF error # NoGrpcWebError
      THEN ClientRpcError(error.errorType, error.message)
      ELSE IF status # 200
      THEN ClientRpcError(guessErrorTypeFromHttpStatus(status), nonOkMessage(status))
      ELSE NoClientError

\* ----------------------------------------------------- the express response
NewResp ==
  [statusCode |-> 200, headersSent |-> FALSE, finished |-> FALSE,
   headers |-> EmptyMetadata, body |-> <<>>]

\* resp.write(frame): the first write sends the headers; nothing is written
\* once the response is finished
write(r, frame) ==
  IF r.finished THEN r
  ELSE [r EXCEPT !.headersSent = TRUE, !.body = Append(@, frame)]

\* resp.end()
respEnd(r) == [r EXCEPT !.headersSent = TRUE, !.finished = TRUE]

sendHttpErrorResponse(httpStatus, errorMetadata, r) ==
  respEnd([r EXCEPT !.statusCode = httpStatus, !.headers = errorMetadata])

\* encodeFrame(TRAILER_FLAG, codec.encodeTrailer(metadata))
ServerTrailerFrame(metadata) ==
  [chunkType |-> "TRAILERS", v |-> 0, status |-> metadata.status,
   message |-> metadata.message]

\* the error provideResponseContext(err) can fail with
encodingErr == SrvErr("Error", "", <<"s", "s">>, <<>>)

\* safeCaptureError, without its try block
safeCaptureError_unguarded(rep, err, sinkFails) ==
  [reported |-> Append(rep, err), logged |-> 0, escapes |-> sinkFails]

\* safeCaptureError(captureError, err, errContext): the sink is called with
\* err; what it throws is caught and logged with console.error
safeCaptureError(rep, err, sinkFails) ==
  [reported |-> Append(rep, err),
   logged |-> IF sinkFails THEN 1 ELSE 0,
   escapes |-> FALSE]

\* the catch of the route handler: report, add the response context (which
\* may fail and is then reported too), send the error; an exception that
\* escapes from the catch leaves the response as it is
routeCatch(err, r, rep, contextFails, sinkFails) ==
  LET c1 == safeCaptureError(rep, err, sinkFails)
      c2 == IF contextFails
            THEN safeCaptureError(c1.reported, encodingErr, sinkFails)
            ELSE [reported |-> c1.reported, logged |-> 0, escapes |-> FALSE]
      g == getGrpcWebErrorFromError(err)
      errorMetadata == getMetadataFromGrpcWebError(g.grpcWebError)
  IN  IF c1.escapes
      THEN [reported |-> c1.reported, logged |-> c1.logged, escapes |-> TRUE,
            resp |-> r]
      ELSE [reported |-> c2.reported, logged |-> c1.logged + c2.logged,
            escapes |-> c2.escapes,
            resp |-> IF c2.escapes THEN r
                     ELSE IF ~r.headersSent
                     THEN sendHttpErrorResponse(g.status, errorMetadata, r)
                     ELSE IF ~r.finished
                     THEN respEnd(write(r, ServerTrailerFrame(errorMetadata)))
                     ELSE r]

\* the promise processServerStream awaits
PendingPromise == [status |-> "pending", err |-> SrvErr("none", "", <<>>, <<>>)]

resolve(p) == IF p.status = "pending" THEN [p EXCEPT !.status = "resolved"] ELSE p

reject(p, err) ==
  IF p.status = "pending" THEN [status |-> "rejected", err |-> err] ELSE p

\* a thrown error, with where it was thrown and whether the response
\* headers had been sent
Failure(err, source) ==
  [err |-> err, source |-> source, headersSent |-> resp.headersSent]

Call(name, v, ok) == [name |-> name, v |-> v, ok |-> ok]

\* the requestLimit option of the server, as in the tests
requestLimit == 5

Request(method, accept, size) == [method |-> method, accept |-> accept, size |-> size]

\* the requests a client can send: the Accept header is the content type of
\* the codec, another one, or missing
Requests ==
  { Request(m, a, n) : m \in {"POST", "GET"}, a \in {"codec", "other", "missing"},
                       n \in {2, requestLimit, requestLimit + 1} }

\* a request of the gRPC-Web client
ClientRequest == Request("POST", "codec", 2)

SInitSink(kind, req, sinkFails) ==
  /\ route = "bodyParser"
  /\ request = req
  /\ sinkThrows = sinkFails
  /\ sinkLog = 0
  /\ connectorCalls = 0
  /\ methodKind = kind
  /\ resp = NewResp
  /\ reported = <<>>
  /\ streamStatus = "notReady"
  /\ handler = "none"
  /\ streamPromise = PendingPromise
  /\ handlerCalls = <<>>
  /\ failures = <<>>

\* a server whose reportError returns normally
SInitWith(kind, req) == SInitSink(kind, req, FALSE)

SInitOf(kind) == SInitWith(kind, ClientRequest)

SInit ==
  \E kind \in {"unary", "serverStream"}, req \in Requests, sinkFails \in BOOLEAN :
    SInitSink(kind, req, sinkFails)

\* bodyParser.raw({limit}): a body over the limit is answered with status 413
\* and the route is not entered
BodyParsed ==
  /\ UNCHANGED <<gvars, rvars, cvars, tvars, fvars>>
  /\ route = "bodyParser"
  /\ IF request.size > requestLimit
     THEN /\ route' = "done"
          /\ resp' = respEnd([resp EXCEPT !.statusCode = 413])
     ELSE /\ route' = "route"
          /\ UNCHANGED resp
  /\ UNCHANGED <<methodKind, reported, sinkLog, streamStatus, handler,
                 streamPromise,
                 handlerCalls, failures, request, sinkThrows, connectorCalls>>

\* routeCheck, letting a request without Accept header through
routeCheck_acceptOptional(req) ==
  IF req.method # "POST" THEN 405
  ELSE IF req.accept \notin {"codec", "missing"} THEN 406
  ELSE 0

\* the checks of the route of a method before its try block: the status
\* sent, 0 when the request goes on
routeCheck(req) ==
  IF req.method # "POST" THEN 405
  ELSE IF req.accept # "codec" THEN 406
  ELSE 0

\* the route of a method, up to its try block: resp.sendStatus()
RouteEntered ==
  /\ UNCHANGED <<gvars, rvars, cvars, tvars, fvars>>
  /\ route = "route"
  /\ IF routeCheck(request) # 0
     THEN /\ route' = "done"
          /\ resp' = respEnd([resp EXCEPT !.statusCode = routeCheck(request)])
     ELSE /\ route' = "decodeRequestContext"
          /\ UNCHANGED resp
  /\ UNCHANGED <<methodKind, reported, sinkLog, streamStatus, handler,
                 streamPromise,
                 handlerCalls, failures, request, sinkThrows, connectorCalls>>

\* the route handler ends in its catch block with err, after n calls of the
\* context connector in the same step; the catch calls provideResponseContext
RouteFails(err, source, n) ==
  \E contextFails \in BOOLEAN :
    LET c == routeCatch(err, resp, reported, contextFails, sinkThrows) IN
    /\ connectorCalls' = connectorCalls + n + 1
    /\ route' = IF c.escapes THEN "crashed" ELSE "done"
    /\ resp' = c.resp
    /\ reported' = c.reported
    /\ sinkLog' = sinkLog + c.logged
    /\ failures' = Append(failures, Failure(err, source))

\* decodeRequestContext() settles; then codec.decodeRequest() and the dispatch
RequestContextDecoded ==
  /\ UNCHANGED <<gvars, rvars, cvars, tvars, fvars>>
  /\ route = "decodeRequestContext"
  /\ \/ /\ \E err \in ThrownErrors : RouteFails(err, "decodeRequestContext", 1)
        /\ UNCHANGED handler
     \/ /\ \E err \in ThrownErrors : RouteFails(asServerError(err), "decodeRequest", 1)
        /\ UNCHANGED handler
     \/ /\ methodKind = "serverStream"
        /\ route' = "streamResponseContext"
        /\ connectorCalls' = connectorCalls + 1
        /\ UNCHANGED <<resp, reported, sinkLog, failures, handler>>
     \/ /\ methodKind = "unary"
        /\ route' = "unaryHandler"
        /\ handler' = "running"
        /\ connectorCalls' = connectorCalls + 1
        /\ UNCHANGED <<resp, reported, sinkLog, failures>>
  /\ UNCHANGED <<methodKind, streamStatus, streamPromise, handlerCalls, request,
                 sinkThrows>>

\* processServerStream: addEncodedResponseContext() settles; the handler is called
StreamResponseContextProvided ==
  /\ UNCHANGED <<gvars, rvars, cvars, tvars, fvars>>
  /\ route = "streamResponseContext"
  /\ \/ /\ \E err \in ThrownErrors : RouteFails(err, "provideResponseContext", 1)
        /\ UNCHANGED handler
     \/ /\ route' = "streamHandler"
        /\ handler' = "running"
        /\ connectorCalls' = connectorCalls + 1
        /\ UNCHANGED <<resp, reported, sinkLog, failures>>
  /\ UNCHANGED <<methodKind, streamStatus, streamPromise, handlerCalls, request,
                 sinkThrows>>

\* the handler calls onReady
Handler_onReady ==
  /\ UNCHANGED <<gvars, rvars, cvars, tvars, fvars>>
  /\ methodKind = "serverStream"
  /\ handler = "running"
  /\ Len(handlerCalls) < MaxHandlerCalls
  /\ IF streamStatus = "end"
     THEN LET err == HandlerProtocolError(<<>>) IN
          /\ streamPromise' = reject(streamPromise, err)
          /\ failures' = Append(failures, Failure(err, "onReady"))
          /\ handlerCalls' = Append(handlerCalls, Call("onReady", 0, FALSE))
          /\ UNCHANGED <<resp, streamStatus>>
     ELSE \* a second call builds a HandlerProtocolError and does not throw it
          /\ resp' = [resp EXCEPT !.statusCode = 200]
          /\ streamStatus' = "ready"
          /\ handlerCalls' = Append(handlerCalls, Call("onReady", 0, TRUE))
          /\ UNCHANGED <<streamPromise, failures>>
  /\ UNCHANGED <<route, methodKind, reported, sinkLog, handler, request,
                 sinkThrows, connectorCalls>>

\* the messages the handler has passed to onMessage so far
MessageCalls(calls) == SelectSeq(calls, LAMBDA c : c.name = "onMessage")

\* Handler_onMessage, without the check of the status of the stream
Handler_onMessage_unchecked ==
  /\ UNCHANGED <<gvars, rvars, cvars, tvars, fvars>>
  /\ methodKind = "serverStream"
  /\ handler = "running"
  /\ Len(handlerCalls) < MaxHandlerCalls
  /\ \E encodes \in BOOLEAN :
       LET v == Len(MessageCalls(handlerCalls))
           thrown_ == ~encodes \/ resp.finished
           err == IF ~encodes
                  THEN HandlerProtocolError(<<>>)
                  ELSE ServerTransportError(SrvErr("Error", "", <<>>, <<>>))
       IN  IF thrown_
           THEN /\ streamPromise' = reject(streamPromise, err)
                /\ failures' = Append(failures, Failure(err, "onMessage"))
                /\ handlerCalls' = Append(handlerCalls, Call("onMessage", v, FALSE))
                /\ UNCHANGED resp
           ELSE /\ resp' = write(resp, MessageFrame(v))
                /\ handlerCalls' = Append(handlerCalls, Call("onMessage", v, TRUE))
                /\ UNCHANGED <<streamPromise, failures>>
  /\ UNCHANGED <<route, methodKind, reported, sinkLog, streamStatus, handler,
                 request, sinkThrows, connectorCalls>>

\* the handler calls onMessage; codec.encodeMessage() may throw
Handler_onMessage ==
  /\ UNCHANGED <<gvars, rvars, cvars, tvars, fvars>>
  /\ methodKind = "serverStream"
  /\ handler = "running"
  /\ Len(handlerCalls) < MaxHandlerCalls
  /\ \E encodes \in BOOLEAN :
       LET v == Len(MessageCalls(handlerCalls))
           thrown_ == streamStatus # "ready" \/ ~encodes \/ resp.finished
           err == IF streamStatus # "ready" \/ ~encodes
                  THEN HandlerProtocolError(<<>>)
                  ELSE ServerTransportError(SrvErr("Error", "", <<>>, <<>>))
       IN  IF thrown_
           THEN /\ streamPromise' = reject(streamPromise, err)
                /\ failures' = Append(failures, Failure(err, "onMessage"))
                /\ handlerCalls' = Append(handlerCalls, Call("onMessage", v, FALSE))
                /\ UNCHANGED resp
           ELSE /\ resp' = write(resp, MessageFrame(v))
                /\ handlerCalls' = Append(handlerCalls, Call("onMessage", v, TRUE))
                /\ UNCHANGED <<streamPromise, failures>>
  /\ UNCHANGED <<route, methodKind, reported, sinkLog, streamStatus, handler,
                 request, sinkThrows, connectorCalls>>

\* StreamHandlerFulfils, taking a stream that was never ready for a misuse
StreamHandlerFulfils_requiresReady ==
  /\ UNCHANGED <<gvars, rvars, cvars, tvars, fvars>>
  /\ methodKind = "serverStream"
  /\ handler = "running"
  /\ handler' = "fulfilled"
  /\ IF streamStatus = "notReady"
     THEN /\ streamPromise' = reject(streamPromise, HandlerProtocolError(<<>>))
          /\ UNCHANGED resp
     ELSE /\ resp' = write(resp, ServerTrailerFrame(EmptyMetadata))
          /\ streamPromise' = resolve(streamPromise)
  /\ UNCHANGED <<route, methodKind, reported, sinkLog, streamStatus,
                 handlerCalls, failures,
                 request, sinkThrows, connectorCalls>>

\* the promise of a server-stream handler fulfils: the .then() writes the
\* success trailer and resolves
StreamHandlerFulfils ==
  /\ UNCHANGED <<gvars, rvars, cvars, tvars, fvars>>
  /\ methodKind = "serverStream"
  /\ handler = "running"
  /\ handler' = "fulfilled"
  /\ resp' = write(resp, ServerTrailerFrame(EmptyMetadata))
  /\ streamPromise' = resolve(streamPromise)
  /\ UNCHANGED <<route, methodKind, reported, sinkLog, streamStatus,
                 handlerCalls, failures,
                 request, sinkThrows, connectorCalls>>

\* the promise of a server-stream handler rejects: .catch(reject)
StreamHandlerRejects ==
  /\ UNCHANGED <<gvars, rvars, cvars, tvars, fvars>>
  /\ methodKind = "serverStream"
  /\ handler = "running"
  /\ handler' = "rejected"
  /\ \E err \in ThrownErrors :
       /\ streamPromise' = reject(streamPromise, err)
       /\ failures' = Append(failures, Failure(err, "handler"))
  /\ UNCHANGED <<route, methodKind, resp, reported, sinkLog, streamStatus,
                 handlerCalls,
                 request, sinkThrows, connectorCalls>>

\* processServerStream resumes after its await: the catch block writes the
\* error trailer, or the response is ended
StreamContinues ==
  /\ UNCHANGED <<gvars, rvars, cvars, tvars, fvars>>
  /\ route = "streamHandler"
  /\ streamPromise.status # "pending"
  /\ IF streamPromise.status = "rejected"
     THEN LET err == streamPromise.err
              trailer == ServerTrailerFrame(
                           getMetadataFromGrpcWebError(toGrpcWebError(err)))
              c == safeCaptureError(reported, err, sinkThrows)
          IN  /\ streamStatus' = "end"
              /\ reported' = c.reported
              /\ sinkLog' = sinkLog + c.logged
              /\ route' = IF c.escapes THEN "crashed" ELSE "done"
              /\ resp' = IF c.escapes THEN resp ELSE respEnd(write(resp, trailer))
     ELSE /\ route' = "done"
          /\ resp' = respEnd(resp)
          /\ UNCHANGED <<reported, sinkLog, streamStatus>>
  /\ UNCHANGED <<methodKind, handler, streamPromise, handlerCalls, failures,
                 request, sinkThrows, connectorCalls>>

\* the promise of a unary handler fulfils
UnaryHandlerFulfils ==
  /\ UNCHANGED <<gvars, rvars, cvars, tvars, fvars>>
  /\ route = "unaryHandler"
  /\ handler' = "fulfilled"
  /\ route' = "unaryResponseContext"
  /\ UNCHANGED <<methodKind, resp, reported, sinkLog, streamStatus, streamPromise,
                 handlerCalls, failures, request, sinkThrows, connectorCalls>>

\* the promise of a unary handler rejects
UnaryHandlerRejects ==
  /\ UNCHANGED <<gvars, rvars, cvars, tvars, fvars>>
  /\ route = "unaryHandler"
  /\ handler' = "rejected"
  /\ \E err \in ThrownErrors : RouteFails(err, "handler", 0)
  /\ UNCHANGED <<methodKind, streamStatus, streamPromise, handlerCalls, request,
                 sinkThrows>>

\* processUnary: addEncodedResponseContext() settles; the response is sent
UnaryResponseContextProvided ==
  /\ UNCHANGED <<gvars, rvars, cvars, tvars, fvars>>
  /\ route = "unaryResponseContext"
  /\ \/ \E err \in ThrownErrors : RouteFails(err, "provideResponseContext", 1)
     \/ \* codec.encodeMessage() throws: reported in processUnary, rethrown
        \E err \in ThrownErrors, contextFails \in BOOLEAN :
          LET c0 == safeCaptureError(reported, err, sinkThrows)
              c == IF c0.escapes
                   THEN [reported |-> c0.reported, logged |-> 0, escapes |-> TRUE,
                         resp |-> resp]
                   ELSE routeCatch(asServerError(err), resp, c0.reported,
                                   contextFails, sinkThrows)
          IN  /\ route' = IF c.escapes THEN "crashed" ELSE "done"
              /\ connectorCalls' = connectorCalls + 2
              /\ resp' = c.resp
              /\ reported' = c.reported
              /\ sinkLog' = sinkLog + c0.logged + c.logged
              /\ failures' = Append(failures, Failure(err, "encodeMessage"))
     \/ /\ route' = "done"
        /\ connectorCalls' = connectorCalls + 1
        /\ resp' = respEnd(write(write(resp, MessageFrame(0)),
                                 ServerTrailerFrame(EmptyMetadata)))
        /\ UNCHANGED <<reported, sinkLog, failures>>
  /\ UNCHANGED <<methodKind, streamStatus, handler, streamPromise, handlerCalls,
                 request, sinkThrows>>

SNext ==
  \/ BodyParsed
  \/ RouteEntered
  \/ RequestContextDecoded
  \/ StreamResponseContextProvided
  \/ Handler_onReady
  \/ Handler_onMessage
  \/ StreamHandlerFulfils
  \/ StreamHandlerRejects
  \/ StreamContinues
  \/ UnaryHandlerFulfils
  \/ UnaryHandlerRejects
  \/ UnaryResponseContextProvided

\* ------------------------------------------------------- TransformingStream
\* the messages the source can emit
SourceMessages == {1, 2}

\* fn of the tests: n => n * 2
fn(n) == n * 2

\* the message listener the constructor registers on the source
onSourceMessage(evs, m, throws) ==
  IF m \in throws THEN Append(evs, Ev("error", 0, "fn"))
  ELSE Append(evs, Ev("message", fn(m), ""))

\* the error listener the constructor registers on the source
onSourceError(evs) == Append(evs, Ev("error", 0, "source"))

\* on(): the listeners of ready, complete and canceled are the source's own
onSourceOther(evs, type) == Append(evs, Ev(type, 0, ""))

SourceLive == tSourceStarted /\ ~HasTerminal(tSource)

TInitOf(throws) ==
  /\ tSource = <<>>
  /\ tSourceStarted = FALSE
  /\ tEvents = <<>>
  /\ fnThrows = throws

TInit == \E throws \in SUBSET SourceMessages : TInitOf(throws)

\* TransformingStream.start(): this.source.start()
TransformingStream_start ==
  /\ UNCHANGED <<gvars, rvars, cvars, svars, fvars>>
  /\ ~tSourceStarted
  /\ tSourceStarted' = TRUE
  /\ UNCHANGED <<tSource, tEvents, fnThrows>>

\* the source emits ready
Source_ready ==
  /\ UNCHANGED <<gvars, rvars, cvars, svars, fvars>>
  /\ SourceLive
  /\ tSource = <<>>
  /\ tSource' = Append(tSource, Ev("ready", 0, ""))
  /\ tEvents' = onSourceOther(tEvents, "ready")
  /\ UNCHANGED <<tSourceStarted, fnThrows>>

\* the source emits a message
Source_message ==
  /\ UNCHANGED <<gvars, rvars, cvars, svars, fvars>>
  /\ SourceLive
  /\ Len(tSource) < MaxSourceEvents - 1
  /\ \E m \in SourceMessages :
       /\ tSource' = Append(tSource, Ev("message", m, ""))
       /\ tEvents' = onSourceMessage(tEvents, m, fnThrows)
  /\ UNCHANGED <<tSourceStarted, fnThrows>>

\* the source emits error
Source_error ==
  /\ UNCHANGED <<gvars, rvars, cvars, svars, fvars>>
  /\ SourceLive
  /\ tSource' = Append(tSource, Ev("error", 0, "source"))
  /\ tEvents' = onSourceError(tEvents)
  /\ UNCHANGED <<tSourceStarted, fnThrows>>

\* the source emits complete
Source_complete ==
  /\ UNCHANGED <<gvars, rvars, cvars, svars, fvars>>
  /\ SourceLive
  /\ tSource' = Append(tSource, Ev("complete", 0, ""))
  /\ tEvents' = onSourceOther(tEvents, "complete")
  /\ UNCHANGED <<tSourceStarted, fnThrows>>

\* TransformingStream.cancel(): this.source.cancel(); the source emits canceled
TransformingStream_cancel ==
  /\ UNCHANGED <<gvars, rvars, cvars, svars, fvars>>
  /\ ~HasTerminal(tSource)
  /\ tSource' = Append(tSource, Ev("canceled", 0, ""))
  /\ tEvents' = onSourceOther(tEvents, "canceled")
  /\ UNCHANGED <<tSourceStarted, fnThrows>>

TNext ==
  \/ TransformingStream_start
  \/ Source_ready
  \/ Source_message
  \/ Source_error
  \/ Source_complete
  \/ TransformingStream_cancel

\* ------------------------------------------- status decoding and backoff
\* the HTTP statuses a response can have
AllHttpStatuses == 100..MaxHttpStatus

\* Math.pow(base, n) for a natural n
RECURSIVE pow(_, _)
pow(base, n) == IF n = 0 THEN 1 ELSE base * pow(base, n - 1)

\* getBackoffMs, with its comparison to maxBackoffMs turned around
getBackoffMs_capsBelow(opts, n) ==
  LET ms == pow(opts.exponentialBackoffBase, n) * opts.constantBackoffMs
  IN  IF opts.maxBackoffMs > 0 /\ ms < opts.maxBackoffMs
      THEN opts.maxBackoffMs ELSE ms

\* getBackoffMs(options, retries)
getBackoffMs(opts, n) ==
  LET ms == pow(opts.exponentialBackoffBase, n) * opts.constantBackoffMs
  IN  IF opts.maxBackoffMs > 0 /\ ms > opts.maxBackoffMs
      THEN opts.maxBackoffMs ELSE ms

\* the backoff fields of DEFAULT_BACKOFF_OPTIONS
DEFAULT_BACKOFF_SCHEDULE ==
  [exponentialBackoffBase |-> 2, constantBackoffMs |-> 500, maxBackoffMs |-> 3000]

\* the backoff fields of the options a caller can pass
BackoffSchedules ==
  [exponentialBackoffBase : {0, 1, 2, 3}, constantBackoffMs : {0, 1, 500},
   maxBackoffMs : {-1, 0, 1, 3000}]

NotComputed == -1000

FInitOf(status, opts, n) ==
  /\ responseStatus = status
  /\ guessedType = ""
  /\ backoffOptions = opts
  /\ backoffRetries = n
  /\ backoffMs = NotComputed

FIdle == FInitOf(200, DEFAULT_BACKOFF_SCHEDULE, 0)

\* the client decodes the status of a response
GuessErrorType ==
  /\ UNCHANGED <<gvars, rvars, cvars, svars, tvars>>
  /\ guessedType = ""
  /\ guessedType' = guessErrorTypeFromHttpStatus(responseStatus)
  /\ UNCHANGED <<responseStatus, backoffOptions, backoffRetries, backoffMs>>

\* the error listener of a retrying stream computes its sleep
ComputeBackoff ==
  /\ UNCHANGED <<gvars, rvars, cvars, svars, tvars>>
  /\ backoffMs = NotComputed
  /\ backoffMs' = getBackoffMs(backoffOptions, backoffRetries)
  /\ UNCHANGED <<responseStatus, guessedType, backoffOptions, backoffRetries>>

\* -------------------------------------------------------- specifications
\* one GrpcWebStream
InitGrpc ==
  GInit /\ RInitWith(DEFAULT_BACKOFF_OPTIONS, "Error") /\ CInit /\ SInitOf("unary")
  /\ TInitOf({}) /\ FIdle

SpecGrpc == InitGrpc /\ [][GNext]_vars

\* one retrying stream over the attempts of its factory
InitRetry == GInit /\ RInit /\ CInit /\ SInitOf("unary") /\ TInitOf({}) /\ FIdle

\* one unary call over a stream that emits any events
InitCall ==
  GInit /\ RInitWith(DEFAULT_BACKOFF_OPTIONS, "Error") /\ CInit /\ SInitOf("unary")
  /\ TInitOf({}) /\ FIdle

SpecCall == InitCall /\ [][CNext]_vars

\* one request served by the route of a method
InitServer ==
  GInit /\ RInitWith(DEFAULT_BACKOFF_OPTIONS, "Error") /\ CInit /\ SInit /\ TInitOf({}) /\ FIdle

SpecServer == InitServer /\ [][SNext]_vars

SpecRetry == InitRetry /\ [][RNext]_vars

\* one transformed stream over a source that emits any events
InitTransform ==
  GInit /\ RInitWith(DEFAULT_BACKOFF_OPTIONS, "Error") /\ CInit /\ SInitOf("unary")
  /\ TInit /\ FIdle

SpecTransform == InitTransform /\ [][TNext]_vars

\* the status of one response, decoded
InitHttpStatus ==
  /\ GInit /\ RInitWith(DEFAULT_BACKOFF_OPTIONS, "Error") /\ CInit /\ SInitOf("unary")
  /\ TInitOf({})
  /\ \E status \in AllHttpStatuses : FInitOf(status, DEFAULT_BACKOFF_SCHEDULE, 0)

SpecHttpStatus == InitHttpStatus /\ [][GuessErrorType]_vars

\* one backoff, computed
InitBackoff ==
  /\ GInit /\ RInitWith(DEFAULT_BACKOFF_OPTIONS, "Error") /\ CInit /\ SInitOf("unary")
  /\ TInitOf({})
  /\ \E opts \in BackoffSchedules, n \in 0..MaxRetriesArg : FInitOf(200, opts, n)

SpecBackoff == InitBackoff /\ [][ComputeBackoff]_vars

\* ------------------------------------------------------------------ claims
\* C1: a GrpcWebStream emits at most one terminal event (complete, canceled,
\* error) and that terminal event is the last event it emits.
C1_TerminalIsSingleAndLast ==
  \A i \in 1..Len(events) : IsTerminal(events[i]) => i = Len(events)

\* C2: after cancel() on a started stream that had emitted no terminal event,
\* the stream has emitted canceled and no ready, message, complete or error
\* follows it.
C2_NothingAfterCancel ==
  cancelMark > 0 =>
    /\ events[cancelMark].type = "canceled"
    /\ \A i \in (cancelMark + 1)..Len(events) :
         events[i].type \notin {"ready", "message", "complete", "error"}

\* C3: cancel() is idempotent: once cancel() has been called on a stream with
\* no terminal event, canceled has been emitted exactly once, however many
\* calls of cancel() follow.
C3_CancelIdempotent ==
  cancelMark > 0 => CountType(events, "canceled") = 1

\* C4: cancel() on a stream that has emitted complete or error emits nothing
\* and leaves the state as it is.
C4_CancelAfterTerminalNoOp ==
  [][(/\ cancelCalls' = cancelCalls + 1
      /\ \E i \in 1..Len(events) : events[i].type \in {"complete", "error"})
     => (events' = events /\ state' = state)]_vars

\* C5: a retrying stream emits at most one terminal event (complete, canceled,
\* error) and that terminal event is the last event it emits.
C5_RetryTerminalIsSingleAndLast ==
  \A i \in 1..Len(rEvents) : IsTerminal(rEvents[i]) => i = Len(rEvents)

\* C6: one cancel() on a retrying stream whose attempt is open calls cancel()
\* on that attempt exactly once, makes the retrying stream emit canceled
\* exactly once, and the factory is not invoked again.
C6_CancelWhileOpen ==
  (cancelWhileOpen > 0 /\ rCancelCalls = 1) =>
    /\ upstreamCancelCalls = 1
    /\ CountType(rEvents, "canceled") = 1
    /\ rEvents[Len(rEvents)].type = "canceled"
    /\ getStreamCalls = cancelWhileOpen

C6_Witness ==
  /\ cancelWhileOpen > 1
  /\ rCancelCalls = 1
  /\ loop = "done"
  /\ \E i \in 1..Len(rEvents) : rEvents[i].type = "message"

\* C7: one cancel() made after an attempt errored and while the backoff sleep
\* is running makes the retrying stream emit canceled, right after the
\* retryingError(err, n, false) of that attempt, as its only terminal event,
\* and the factory is not invoked again.
C7_CancelDuringBackoff ==
  (cancelInBackoff > 0 /\ rCancelCalls = 1) =>
    LET n == Len(rEvents) IN
    /\ n >= 2
    /\ rEvents[n].type = "canceled"
    /\ rEvents[n - 1].type = "retryingError" /\ ~rEvents[n - 1].abandoned
    /\ \A i \in 1..(n - 1) : ~IsTerminal(rEvents[i])
    /\ getStreamCalls = cancelInBackoff

C7_Witness ==
  /\ cancelInBackoff = 1
  /\ rCancelCalls = 1
  /\ loop = "done"
  /\ rEvents = << REv("retryingError", 0, upstreamErr, 0, FALSE),
                  REv("canceled", 0, "", 0, FALSE) >>

OnlyErrors(log) == \A i \in 1..Len(log) : log[i].type = "error"

\* what C8 expects after k attempts that all failed with err, maxRetries = N
AbandonTrace(k, N, err) ==
  LET retrying == [i \in 1..k |-> REv("retryingError", 0, err, i - 1, i - 1 = N)]
  IN  IF k = N + 1 THEN Append(retrying, REv("error", 0, err, 0, FALSE))
      ELSE retrying

\* C8: with maxRetries = N >= 0 and every attempt failing before ready, the
\* factory is invoked N+1 times and the events are retryingError(err, i, false)
\* for i < N, then retryingError(err, N, true), then error(err), nothing else.
C8_AbandonsAfterMaxRetries ==
  (options.maxRetries >= 0 /\ rCancelCalls = 0 /\ OnlyErrors(upstreamLog)) =>
    /\ getStreamCalls <= options.maxRetries + 1
    /\ rEvents = AbandonTrace(Len(upstreamLog), options.maxRetries, upstreamErr)
    /\ loop = "done" =>
         /\ getStreamCalls = options.maxRetries + 1
         /\ Len(upstreamLog) = options.maxRetries + 1

C8_Witness ==
  /\ options.maxRetries = 3
  /\ rCancelCalls = 0
  /\ OnlyErrors(upstreamLog)
  /\ loop = "done"
  /\ Len(rEvents) = 5
  /\ rEvents[4].abandoned
  /\ rEvents[5].type = "error"

\* an attempt emits its messages after its ready
WellFormed(log) ==
  \A i \in 1..Len(log) :
    log[i].type = "message" =>
      \E j \in 1..(i - 1) :
        log[j].type = "ready" /\ log[j].attempt = log[i].attempt

\* what C9 expects of the retrying stream for the events of the attempts:
\* a retried error becomes retryingError(err, n, false), n counted since the
\* last ready; everything else is passed on
RECURSIVE Translate(_, _)
Translate(log, n) ==
  IF log = <<>> THEN <<>>
  ELSE LET h == Head(log) IN
    IF h.type = "error"
    THEN <<REv("retryingError", 0, h.err, n, FALSE)>> \o Translate(Tail(log), n + 1)
    ELSE <<REv(h.type, h.v, "", 0, FALSE)>>
         \o Translate(Tail(log), IF h.type = "ready" THEN 0 ELSE n)

\* C9: with well-formed attempts (and no cancel() and no abandon), the events
\* of the retrying stream are the events of the attempts in order, every
\* retried error replaced by retryingError(err, n, false).
C9_TraceIsConcatenation ==
  (rCancelCalls = 0 /\ WellFormed(upstreamLog) /\ rState # "abandoned") =>
    rEvents = Translate(upstreamLog, 0)

C9_Witness ==
  /\ rCancelCalls = 0
  /\ loop = "done"
  /\ rEvents = << REv("retryingError", 0, upstreamErr, 0, FALSE),
                  REv("retryingError", 0, upstreamErr, 1, FALSE),
                  REv("ready", 0, "", 0, FALSE),
                  REv("message", 0, "", 0, FALSE),
                  REv("complete", 0, "", 0, FALSE) >>

\* the errors C10 says are not retried by default
NonRetryableByDefault == {"ClientProtocolError", "ClientRpcError_invalidArgument"}

\* C10: with the default options, an attempt's error that is a protocol error
\* or a ClientRpcError of a non-retryable kind is announced with
\* retryingError(err, n, true) followed by error(err).
C10_DefaultNonRetryable ==
  options = DEFAULT_BACKOFF_OPTIONS =>
    \A i \in 1..Len(rEvents) :
      (rEvents[i].type = "retryingError" /\ rEvents[i].err \in NonRetryableByDefault)
        => /\ rEvents[i].abandoned
           /\ i < Len(rEvents)
           /\ rEvents[i + 1].type = "error"

\* the first terminal event of evs
FirstTerminal(evs) ==
  IF HasTerminal(evs)
  THEN evs[CHOOSE i \in 1..Len(evs) :
             IsTerminal(evs[i]) /\ \A j \in 1..(i - 1) : ~IsTerminal(evs[j])]
  ELSE Ev("none", 0, "")

\* C11: when the transport of a stream that has emitted no terminal event and
\* was not canceled ends with an error, the stream emits error; when it ends
\* without an error and the headers were accepted (ready emitted), the stream
\* emits complete if a (successful) trailer frame was received and
\* error(unavailable) otherwise.
C11_TransportEndOutcome ==
  (wire.end # "none" /\ wire.endLive /\ cancelMark = 0) =>
    IF wire.end = "err"
    THEN FirstTerminal(events) = Ev("error", 0, "transport")
    ELSE (/\ headers = NoHeaders
          /\ CountType(events, "ready") > 0
          /\ wire.trailer => wire.trailerStatus = 0) =>
         FirstTerminal(events) =
           IF wire.trailer THEN Ev("complete", 0, "")
           ELSE Ev("error", 0, "unavailable")

\* the transport ended before the headers were decoded, the buffered chunks
\* held two messages and no trailer
C11_Witness ==
  /\ wire.end = "ok" /\ wire.endLive /\ wire.endAt = 0
  /\ cancelCalls = 0
  /\ ~wire.trailer
  /\ events = << Ev("ready", 0, ""), Ev("message", 0, ""), Ev("message", 1, ""),
                 Ev("error", 0, "unavailable") >>

\* the kind section 6 of the specification gives to the headers h
ExpectedKind(h) ==
  CASE h.grpcStatus = 5 -> "notFound"
    [] h.grpcStatus = 13 -> "internal"
    [] h.grpcStatus = 0 /\ h.status = 404 -> "notFound"
    [] h.grpcStatus = 0 /\ h.status = 500 -> "internal"
    [] OTHER -> "none"

\* C12: once response headers with a non-zero grpc-status or an HTTP status
\* other than 200 have been decoded, the stream has emitted error with the
\* mapped kind and it has emitted neither ready nor message.
C12_HeaderErrors ==
  LET h == wire.headers IN
  (/\ h # NoHeaders /\ h.decodeOk /\ headers = NoHeaders
   /\ (h.grpcStatus # 0 \/ h.status # 200)) =>
    /\ \E i \in 1..Len(events) : events[i] = Ev("error", 0, ExpectedKind(h))
    /\ \A i \in 1..Len(events) : events[i].type \notin {"ready", "message"}

\* HTTP 404 without grpc-status, a body chunk delivered, a clean end
C12_Witness ==
  /\ wire.headers = [status |-> 404, grpcStatus |-> 0, decodeOk |-> TRUE]
  /\ headers = NoHeaders
  /\ msgsSent > 0
  /\ wire.end = "ok"
  /\ events = << Ev("error", 0, "notFound") >>

\* the messages of evs before position k
MessagesBefore(evs, k) ==
  SelectSeq(SubSeq(evs, 1, k - 1), LAMBDA e : e.type = "message")

\* position of the first terminal event of evs, 0 when there is none
FirstTerminalAt(evs) ==
  IF HasTerminal(evs)
  THEN CHOOSE i \in 1..Len(evs) :
         IsTerminal(evs[i]) /\ \A j \in 1..(i - 1) : ~IsTerminal(evs[j])
  ELSE 0

\* C14: once the stream of a unary call has emitted its terminal event, the
\* promise is settled: fulfilled with the message when exactly one message
\* preceded complete, rejected with a ClientProtocolError when none or several
\* preceded complete, rejected with e on error(e), rejected with a
\* ClientRpcError of kind canceled on canceled.
C14_UnaryAdapter ==
  LET k == FirstTerminalAt(callStream)
      t == callStream[k]
      msgs == MessagesBefore(callStream, k)
  IN  k > 0 =>
        CASE t.type = "complete" /\ Len(msgs) = 1 -> promise = Fulfilled(msgs[1].v)
          [] t.type = "complete" /\ Len(msgs) # 1 ->
               promise.status = "rejected" /\ promise.err = "ClientProtocolError"
          [] t.type = "error" -> promise = Rejected(t.err, "", "")
          [] t.type = "canceled" ->
               /\ promise.status = "rejected"
               /\ promise.err = "ClientRpcError"
               /\ promise.errorType = "canceled"

\* each frame as a chunk of its own
AsChunks(frames) == [i \in 1..Len(frames) |-> <<frames[i]>>]

RECURSIVE deliver(_, _, _)
deliver(st, evs, chunks) ==
  IF chunks = <<>> THEN St(st, evs)
  ELSE LET r == onChunkCallback(st, evs, Head(chunks))
       IN  deliver(r.state, r.events, Tail(chunks))

\* what a client stream emits for a response body of which the first k frames
\* arrive while the headers are being decoded and the others afterwards,
\* before the transport ends
ClientSees(body, k) ==
  LET r1 == ready("started", <<>>, AsChunks(SubSeq(body, 1, k)))
      r2 == deliver(r1.state, r1.events, AsChunks(SubSeq(body, k + 1, Len(body))))
  IN  onEndCallback(r2.state, r2.events).events

MessageValues(evs) ==
  LET ms == SelectSeq(evs, LAMBDA e : e.type = "message")
  IN  [i \in 1..Len(ms) |-> ms[i].v]

\* the values of the onMessage calls that returned normally, in call order
SuccessfulMessages(calls) ==
  LET ms == SelectSeq(calls, LAMBDA c : c.name = "onMessage" /\ c.ok)
  IN  [i \in 1..Len(ms) |-> ms[i].v]

\* C13: for a served server-stream call, the messages the client emits are
\* the messages of the handler's onMessage calls, in call order, without loss
\* or duplication, however many frames reached the client before it was ready.
C13_MessageOrder ==
  (methodKind = "serverStream" /\ route = "done" /\ resp.statusCode = 200) =>
    \A k \in 0..Len(resp.body) :
      MessageValues(ClientSees(resp.body, k)) = SuccessfulMessages(handlerCalls)

\* onReady, two messages, the handler fulfils
C13_Witness ==
  /\ methodKind = "serverStream" /\ route = "done"
  /\ handler = "fulfilled" /\ failures = <<>>
  /\ SuccessfulMessages(handlerCalls) = <<0, 1>>
  /\ ClientSees(resp.body, 1) =
       << Ev("ready", 0, ""), Ev("message", 0, ""), Ev("message", 1, ""),
          Ev("complete", 0, "") >>

\* the HTTP status of section 6 of the specification for a kind
ExpectedHttpStatus(k) ==
  CASE k \in {"unknown", "canceled", "internal"} -> 500
    [] k \in {"invalidArgument", "failedPrecondition"} -> 400
    [] k = "notFound" -> 404
    [] k = "alreadyExists" -> 409
    [] k = "resourceExhausted" -> 429
    [] k = "permissionDenied" -> 403
    [] k = "unimplemented" -> 501
    [] k = "unavailable" -> 503
    [] k = "unauthenticated" -> 401

\* the percent-encoding of the transmitted messages of the model
ExpectedEncoding(m) ==
  CASE m = <<>> -> <<>>
    [] m = <<"a">> -> <<"a">>
    [] m = <<"a", " ", "%">> -> <<"a", "%", "2", "0", "%", "2", "5">>

\* the metadata that carries a ServerRpcError
ExpectedMetadata(err) ==
  Metadata(errorTypesToGrpcStatuses[err.errorType],
           ExpectedEncoding(err.unsafeTransmittedMessage))

\* C15: a served call whose first failure is a ServerRpcError of kind K
\* thrown before the response headers were sent answers with the HTTP status
\* of K, with grpc-status and grpc-message in the response headers, and with
\* an empty body.
C15_ErrorBeforeHeaders ==
  (/\ route = "done" /\ failures # <<>>
   /\ failures[1].err.class = "ServerRpcError"
   /\ ~failures[1].headersSent) =>
    /\ resp.statusCode = ExpectedHttpStatus(failures[1].err.errorType)
    /\ resp.headers = ExpectedMetadata(failures[1].err)
    /\ resp.body = <<>>

\* C16: when the handler of a server-stream call rejects with a ServerRpcError
\* of kind K after the headers were sent, and nothing failed before, the HTTP
\* status stays 200, the body ends with the trailer frame carrying the gRPC
\* code of K and the percent-encoded transmitted message, and the response
\* is ended.
C16_ErrorMidStream ==
  (/\ methodKind = "serverStream" /\ route = "done" /\ failures # <<>>
   /\ failures[1].source = "handler"
   /\ failures[1].err.class = "ServerRpcError"
   /\ failures[1].headersSent) =>
    /\ resp.statusCode = 200
    /\ resp.headers = EmptyMetadata
    /\ resp.finished
    /\ resp.body[Len(resp.body)] =
         ServerTrailerFrame(ExpectedMetadata(failures[1].err))
    /\ \A i \in 1..(Len(resp.body) - 1) : resp.body[i].chunkType = "MESSAGE"

\* onReady, two messages, then the handler rejects with
\* ServerRpcError(resourceExhausted, "s", "a %")
C16_Witness ==
  /\ methodKind = "serverStream" /\ route = "done"
  /\ Len(failures) = 1
  /\ failures[1] = [err |-> SrvErr("ServerRpcError", "resourceExhausted",
                                    <<"s">>, <<"a", " ", "%">>),
                     source |-> "handler", headersSent |-> TRUE]
  /\ Len(resp.body) = 3

\* the metadata sent to the client: the response headers and the trailers
WireMetadata ==
  {resp.headers} \cup
  { Metadata(resp.body[i].status, resp.body[i].message) :
      i \in {j \in 1..Len(resp.body) : resp.body[j].chunkType = "TRAILERS"} }

\* the characters of a metadata's message
MessageChars(metadata) == {metadata.message[i] : i \in 1..Len(metadata.message)}

\* C17: what a failed call sends depends only on the kind and the
\* unsafeTransmittedMessage of its error: a ServerRpcError is sent as its
\* kind and its transmitted message, any other error as internal with no
\* grpc-message, and the internal message appears nowhere in the headers or
\* the trailers.
C17_OnlyTransmittedMessage ==
  (route = "done" /\ failures # <<>>) =>
    LET err == failures[1].err
        sent == IF err.class = "ServerRpcError" THEN ExpectedMetadata(err)
                ELSE Metadata(13, <<>>)
    IN  /\ sent \in WireMetadata
        /\ WireMetadata \subseteq {EmptyMetadata, sent}
        /\ \A m \in WireMetadata : "s" \notin MessageChars(m)

\* a unary handler rejected with ServerRpcError(notFound, "s", "a"): the
\* headers carry grpc-status 5 and grpc-message "a"
C17_Witness ==
  /\ methodKind = "unary" /\ route = "done"
  /\ Len(failures) = 1
  /\ failures[1].source = "handler"
  /\ failures[1].err = SrvErr("ServerRpcError", "notFound", <<"s">>, <<"a">>)
  /\ resp.headers = Metadata(5, <<"a">>)

\* a misuse of the callbacks that the specification forbids: onReady called
\* twice, onMessage called before onReady
Misused(calls) ==
  \/ Cardinality({i \in 1..Len(calls) : calls[i].name = "onReady"}) > 1
  \/ \E i \in 1..Len(calls) :
       /\ calls[i].name = "onMessage"
       /\ \A j \in 1..(i - 1) : calls[j].name # "onReady"

CountIn(seq, x) == Cardinality({i \in 1..Len(seq) : seq[i] = x})

\* C18: once a call has been served, if it failed (the request context or the
\* request did not decode, the handler rejected, or the handler misused its
\* callbacks) reportError has been called exactly once with the failure.
C18_ReportedOnce ==
  (/\ route = "done" /\ handler # "running"
   /\ \/ Misused(handlerCalls)
      \/ /\ failures # <<>>
         /\ failures[1].source \in
              {"decodeRequestContext", "decodeRequest", "handler", "onReady", "onMessage"}) =>
    /\ failures # <<>>
    /\ CountIn(reported, failures[1].err) = 1

\* C19: when the first failure of a call is a ServerRpcError(K, internalMsg,
\* transmittedMsg) of the handler, the client reads from the metadata that
\* carries it (the response headers when the body is empty, the last trailer
\* frame otherwise) an error of kind K with message transmittedMsg.
C19_ErrorRoundTrip ==
  (/\ route = "done" /\ failures # <<>>
   /\ failures[1].source = "handler"
   /\ failures[1].err.class = "ServerRpcError") =>
    LET err == failures[1].err
        last == resp.body[Len(resp.body)]
        metadata == IF resp.body = <<>> THEN resp.headers
                    ELSE Metadata(last.status, last.message)
    IN  getGrpcWebErrorFromMetadata(metadata) =
          GrpcWebError(err.errorType, err.unsafeTransmittedMessage)

\* onReady, one message, then ServerRpcError(unimplemented, "s", "a %")
C19_Witness ==
  /\ methodKind = "serverStream" /\ route = "done"
  /\ Len(failures) = 1
  /\ failures[1].source = "handler"
  /\ failures[1].err = SrvErr("ServerRpcError", "unimplemented", <<"s">>,
                              <<"a", " ", "%">>)
  /\ Len(resp.body) = 2
  /\ resp.body[2].message = <<"a", "%", "2", "0", "%", "2", "5">>

\* C20: the body written for a dispatched call is one message frame per
\* onMessage call that returned normally (one for a unary call), in call
\* order, followed by exactly one trailer frame, the last thing written; when
\* the handler fulfilled and nothing failed it is the success trailer.
C20_BodyShape ==
  (route = "done" /\ resp.body # <<>>) =>
    LET n == Len(resp.body)
        msgs == IF methodKind = "unary" THEN <<0>>
                ELSE SuccessfulMessages(handlerCalls)
    IN  /\ resp.finished
        /\ resp.body[n].chunkType = "TRAILERS"
        /\ SubSeq(resp.body, 1, n - 1) = [i \in 1..Len(msgs) |-> MessageFrame(msgs[i])]
        /\ (handler = "fulfilled" /\ failures = <<>>) =>
             resp.body[n] = ServerTrailerFrame(EmptyMetadata)
\* C21: start() is idempotent: a call of start() on a client stream or a
\* retrying stream that was already started does not throw, opens no second
\* transport or attempt, and emits nothing.
C21_StartIdempotent ==
  [][/\ (startCalls' = startCalls + 1 /\ transport # "unset") =>
          /\ thrown' = thrown
          /\ events' = events
          /\ transport' = transport
          /\ requestContext' = requestContext
     /\ (rStartCalls' = rStartCalls + 1 /\ getStreamCalls > 0) =>
          /\ loop' # "failed"
          /\ rEvents' = rEvents
          /\ getStreamCalls' = getStreamCalls
          /\ upstream' = upstream]_vars
\* ready is emitted at most once, and every message comes after ready
ReadyOnceBeforeMessages(evs) ==
  /\ CountType(evs, "ready") <= 1
  /\ \A i \in 1..Len(evs) :
       evs[i].type = "message" => \E j \in 1..(i - 1) : evs[j].type = "ready"

FirstFnError(evs) ==
  IF \E i \in 1..Len(evs) : evs[i].type = "error" /\ evs[i].err = "fn"
  THEN CHOOSE i \in 1..Len(evs) :
         /\ evs[i].type = "error" /\ evs[i].err = "fn"
         /\ \A j \in 1..(i - 1) : ~(evs[j].type = "error" /\ evs[j].err = "fn")
  ELSE 0

\* C23: when fn throws on a message of the source, the transformed stream
\* emits error and no message for that input, and that error is its last
\* event: no message, complete or other event follows it.
C23_TransformErrorIsTerminal ==
  /\ Len(SelectSeq(tEvents, LAMBDA e : e.type \in {"message", "error"}))
       = Len(SelectSeq(tSource, LAMBDA e : e.type \in {"message", "error"}))
  /\ FirstFnError(tEvents) > 0 => FirstFnError(tEvents) = Len(tEvents)
\* C24: a request whose body is over the requestLimit of the server never
\* reaches the handler, and the client gets from the response a
\* ClientRpcError of kind invalidArgument with message "Request Too Large".
C24_RequestTooLarge ==
  (route = "done" /\ request.size > requestLimit) =>
    /\ handler = "none" /\ handlerCalls = <<>>
    /\ onHeaders(resp.headers, resp.statusCode) =
         ClientRpcError("invalidArgument", <<"Request Too Large">>)
\* the statuses of the documented table
DocumentedStatuses == {400, 401, 403, 404, 409, 413, 429, 500, 501, 502, 503, 504}

\* C25: the kind decoded from an HTTP status is defined for every status:
\* 404 gives notFound, 409 alreadyExists, 429 resourceExhausted, 403
\* permissionDenied, 501 unimplemented, 503 unavailable, 401 unauthenticated,
\* 413 invalidArgument, 502 and 504 unavailable, and a status outside the
\* documented table gives unknown.
C25_HttpStatusDecode ==
  guessedType # "" =>
    /\ guessedType \in RpcErrorType
    /\ responseStatus = 404 => guessedType = "notFound"
    /\ responseStatus = 409 => guessedType = "alreadyExists"
    /\ responseStatus = 429 => guessedType = "resourceExhausted"
    /\ responseStatus = 403 => guessedType = "permissionDenied"
    /\ responseStatus = 501 => guessedType = "unimplemented"
    /\ responseStatus = 503 => guessedType = "unavailable"
    /\ responseStatus = 401 => guessedType = "unauthenticated"
    /\ responseStatus = 413 => guessedType = "invalidArgument"
    /\ responseStatus \in {502, 504} => guessedType = "unavailable"
    /\ responseStatus \notin DocumentedStatuses => guessedType = "unknown"

\* status 413 has been decoded
C25_Witness == responseStatus = 413 /\ guessedType = "invalidArgument"
\* the request was answered with status and reached neither the server
\* context connector nor the handler
AnsweredUnserved(status) ==
  /\ resp.statusCode = status /\ resp.finished
  /\ connectorCalls = 0
  /\ handler = "none" /\ handlerCalls = <<>>

Uncapped(opts, r) == opts.constantBackoffMs * pow(opts.exponentialBackoffBase, r)

Min(a, b) == IF a < b THEN a ELSE b

\* C27 as stated: for every retries r >= 0 and every backoff options,
\* getBackoffMs(options, r) is
\* min(maxBackoffMs, constantBackoffMs * exponentialBackoffBase^r).
C27_BackoffIsMin ==
  backoffMs # NotComputed =>
    backoffMs = Min(backoffOptions.maxBackoffMs, Uncapped(backoffOptions, backoffRetries))

\* C27, amended: getBackoffMs(options, r) is
\* min(maxBackoffMs, constantBackoffMs * exponentialBackoffBase^r) when
\* maxBackoffMs is positive, and constantBackoffMs * exponentialBackoffBase^r
\* when it is not.
C27_BackoffIsMinUnderPositiveMax ==
  backoffMs # NotComputed =>
    backoffMs =
      IF backoffOptions.maxBackoffMs > 0
      THEN Min(backoffOptions.maxBackoffMs, Uncapped(backoffOptions, backoffRetries))
      ELSE Uncapped(backoffOptions, backoffRetries)

\* 500 * 2^3 is capped at 3000
C27_Witness ==
  /\ backoffOptions = DEFAULT_BACKOFF_SCHEDULE
  /\ backoffRetries = 3
  /\ backoffMs = 3000
\* the frames of a sequence of chunks, in order
RECURSIVE FramesOf(_)
FramesOf(chunks) ==
  IF chunks = <<>> THEN <<>> ELSE Head(chunks) \o FramesOf(Tail(chunks))

\* the message events of the message frames among frames
MessageEvents(frames) ==
  LET ms == SelectSeq(frames, LAMBDA f : f.chunkType = "MESSAGE")
  IN  [i \in 1..Len(ms) |-> Ev("message", ms[i].v, "")]

\* the terminal event for the frames received when the transport has ended
TerminalFor(frames) ==
  LET ts == SelectSeq(frames, LAMBDA f : f.chunkType = "TRAILERS")
  IN  IF ts = <<>> THEN Ev("error", 0, "unavailable")
      ELSE IF ts[1].status = 0 THEN Ev("complete", 0, "")
      ELSE Ev("error", 0, grpcStatusesToErrorTypes(ts[1].status))

\* C28: when the transport ends without error while the headers are being
\* decoded, nothing is emitted and the end is put off (state
\* endedBeforeReady); when the decoding then succeeds on accepted headers the
\* stream emits ready, then the messages of the buffered chunks in arrival
\* order, then its terminal event: complete if a (successful) trailer frame
\* was buffered, the error of the trailer if it carried one, error
\* unavailable if no trailer was buffered; a stream on which cancel() was not
\* called has emitted nothing before that ready.
C28_DeferredEnd ==
  [][/\ (wire.end = "none" /\ wire'.end = "ok" /\ state = "started") =>
          (state' = "endedBeforeReady" /\ events' = events)
     /\ (/\ state = "endedBeforeReady"
         /\ headers # NoHeaders /\ headers' = NoHeaders
         /\ headers.decodeOk /\ headers.grpcStatus = 0 /\ headers.status = 200) =>
          /\ cancelCalls = 0 => events = <<>>
          /\ events' = events \o <<Ev("ready", 0, "")>>
                         \o MessageEvents(FramesOf(pendingChunkBytes))
                         \o <<TerminalFor(FramesOf(pendingChunkBytes))>>]_vars

\* the transport ended before the headers were decoded; the buffered chunks
\* held two messages and the trailer
C28_Witness ==
  /\ wire.end = "ok" /\ wire.endAt = 0
  /\ wire.trailer /\ wire.trailerStatus = 0
  /\ events = << Ev("ready", 0, ""), Ev("message", 0, ""), Ev("message", 1, ""),
                 Ev("complete", 0, "") >>
\* C29: when provideRequestContext() fails the stream emits
\* error(RequestContextError) and the transport is never started: nothing is
\* sent and nothing is received; on a stream on which cancel() is not called
\* that error is the only event.
C29_RequestContextFailure ==
  (\E i \in 1..Len(events) : events[i] = Ev("error", 0, "RequestContextError")) =>
    /\ transport = "idle"
    /\ wire = NoWire /\ ~headersDelivered /\ msgsSent = 0
    /\ cancelCalls = 0 => events = <<Ev("error", 0, "RequestContextError")>>

\* provideRequestContext() failed and start() was called once more
C29_Witness ==
  /\ startCalls = 2 /\ cancelCalls = 0
  /\ requestContext = "settled"
  /\ transport = "idle"
  /\ events = <<Ev("error", 0, "RequestContextError")>>
\* the messages of the attempts that come after their attempt's own ready
RECURSIVE AfterOwnReady(_, _)
AfterOwnReady(log, readyAttempts) ==
  IF log = <<>> THEN <<>>
  ELSE LET h == Head(log) IN
    IF h.type = "ready"
    THEN AfterOwnReady(Tail(log), readyAttempts \cup {h.attempt})
    ELSE IF h.type = "message" /\ h.attempt \in readyAttempts
         THEN <<h.v>> \o AfterOwnReady(Tail(log), readyAttempts)
         ELSE AfterOwnReady(Tail(log), readyAttempts)

\* the messages the retrying stream has emitted
RECURSIVE ForwardedMessages(_)
ForwardedMessages(evs) ==
  IF evs = <<>> THEN <<>>
  ELSE IF Head(evs).type = "message"
       THEN <<Head(evs).v>> \o ForwardedMessages(Tail(evs))
       ELSE ForwardedMessages(Tail(evs))

\* C30: the retrying stream forwards a message of an attempt only while it is
\* in state ready: the messages it emits are the messages the attempts emitted
\* after their own ready, and a message an attempt emits before its own ready
\* (also an attempt opened after a retried error) is not emitted.
C30_MessagesOnlyWhileReady ==
  /\ ForwardedMessages(rEvents) = AfterOwnReady(upstreamLog, {})
  /\ (UpstreamLive /\ rState = "ready") => upstream = "ready"

\* the second attempt, opened after a retried error, emits a message before
\* its ready and one after it
C30_Witness ==
  /\ Len(upstreamLog) = 4
  /\ upstreamLog[1].type = "error"
  /\ upstreamLog[2] = UpEv("message", 0, "", 2)
  /\ upstreamLog[3] = UpEv("ready", 0, "", 2)
  /\ upstreamLog[4] = UpEv("message", 1, "", 2)
  /\ rEvents = << REv("retryingError", 0, upstreamErr, 0, FALSE),
                  REv("ready", 0, "", 0, FALSE),
                  REv("message", 1, "", 0, FALSE) >>

\* C31: every error event of the retrying stream comes directly after a
\* retryingError event with the same error and abandoned = true, and every
\* retryingError event with abandoned = true is directly followed by error.
C31_AbandonedPrecedesError ==
  \A i \in 1..Len(rEvents) :
    /\ rEvents[i].type = "error" =>
         /\ i > 1
         /\ rEvents[i - 1].type = "retryingError"
         /\ rEvents[i - 1].err = rEvents[i].err
         /\ rEvents[i - 1].abandoned
    /\ (rEvents[i].type = "retryingError" /\ rEvents[i].abandoned) =>
         /\ i < Len(rEvents)
         /\ rEvents[i + 1].type = "error"
         /\ rEvents[i + 1].err = rEvents[i].err

\* an attempt became ready, the next error exhausts maxRetries = 1
C31_Witness ==
  /\ options.maxRetries = 1
  /\ rState = "abandoned"
  /\ rEvents = << REv("ready", 0, "", 0, FALSE),
                  REv("retryingError", 0, upstreamErr, 0, FALSE),
                  REv("retryingError", 0, upstreamErr, 1, TRUE),
                  REv("error", 0, upstreamErr, 0, FALSE) >>

\* the factory is invoked in this step
FactoryInvoked == getStreamCalls' = getStreamCalls + 1

\* cancel() of the wrapper calls cancel() of an attempt in this step
AttemptCancelled ==
  /\ rCancelCalls' = rCancelCalls + 1
  /\ upstreamCancelCalls' = upstreamCancelCalls + 1

\* the factory is invoked while no attempt is open, and again only after the
\* attempt before has emitted error and the backoff is over
OneAttemptAtATime ==
  FactoryInvoked =>
    /\ ~UpstreamLive
    /\ upstream' = "open"
    /\ cancelCurrentStream'
    /\ getStreamCalls > 0 =>
         /\ upstream = "error"
         /\ ~sleeping
         /\ upstreamLog[Len(upstreamLog)] =
              UpEv("error", 0, upstreamErr, getStreamCalls)

\* C32: at most one attempt is open, the factory is invoked again
\* only after the error of the attempt before and the backoff, and cancel()
\* of the wrapper only calls cancel() of an attempt that is open.
C32_SingleOpenAttempt ==
  [][/\ OneAttemptAtATime
     /\ AttemptCancelled => UpstreamLive]_vars

\* what holds instead: cancel() of the wrapper calls cancel() of the attempt
\* the factory produced last, open or already terminated
C32_SingleAttemptLastTargeted ==
  [][/\ OneAttemptAtATime
     /\ AttemptCancelled =>
          /\ cancelCurrentStream /\ upstream # "none"
          /\ getStreamCalls' = getStreamCalls
          /\ upstreamLog' = Append(upstreamLog,
                                   UpEv("canceled", 0, "", getStreamCalls))]_vars

\* the handler has called onReady a second time, before the end of streaming
SecondOnReady(calls) ==
  \E i, j \in 1..Len(calls) :
    /\ i < j
    /\ calls[i].name = "onReady" /\ calls[j].name = "onReady"
    /\ calls[i].ok /\ calls[j].ok

\* the body ends with an error trailer of kind internal
EndsWithInternalTrailer(body) ==
  /\ body # <<>>
  /\ body[Len(body)].chunkType = "TRAILERS"
  /\ body[Len(body)].status = errorTypesToGrpcStatuses["internal"]

\* a success trailer is in the body
HasSuccessTrailer(body) ==
  \E i \in 1..Len(body) : body[i].chunkType = "TRAILERS" /\ body[i].status = 0

\* C33: when a server-stream handler calls onReady a second time, the call
\* fails with a HandlerProtocolError, the response ends with an error trailer
\* of kind internal, and no success trailer is written.
C33_SecondOnReadyDetected ==
  (SecondOnReady(handlerCalls) /\ route = "done" /\ handler # "running") =>
    /\ \E i \in 1..Len(failures) :
         failures[i].err.class = "HandlerProtocolError"
    /\ EndsWithInternalTrailer(resp.body)
    /\ ~HasSuccessTrailer(resp.body)

\* the handler calls onMessage in this step, before onReady or after the end
\* of streaming
MessageOutOfTurn ==
  /\ Len(handlerCalls') = Len(handlerCalls) + 1
  /\ handlerCalls'[Len(handlerCalls')].name = "onMessage"
  /\ streamStatus \in {"notReady", "end"}

C35_EmptyStream ==
  (/\ methodKind = "serverStream" /\ route = "done"
   /\ handler = "fulfilled" /\ handlerCalls = <<>>) =>
    /\ resp.statusCode = 200 /\ resp.finished
    /\ resp.body = <<ServerTrailerFrame(EmptyMetadata)>>
    /\ onHeaders(resp.headers, resp.statusCode) = NoClientError
    /\ \A k \in 0..Len(resp.body) :
         ClientSees(resp.body, k) = <<Ev("ready", 0, ""), Ev("complete", 0, "")>>

\* the handler has fulfilled without a call of onReady or onMessage and the
\* response is sent
C35_Witness ==
  /\ methodKind = "serverStream" /\ route = "done"
  /\ handler = "fulfilled" /\ handlerCalls = <<>>
  /\ streamStatus = "notReady"
  /\ failures = <<>> /\ reported = <<>>
  /\ resp.finished

\* the errors passed to reportError in this step
NewlyReported == SubSeq(reported', Len(reported) + 1, Len(reported'))

\* what the step that reports NewlyReported writes from the current state
\* when reportError returns normally: the response and the next position
QuietOutcome ==
  IF route = "streamHandler"
  THEN LET err == NewlyReported[1]
           trailer == ServerTrailerFrame(
                        getMetadataFromGrpcWebError(toGrpcWebError(err)))
       IN  { [reported |-> safeCaptureError(reported, err, FALSE).reported,
              resp |-> respEnd(write(resp, trailer))] }
  ELSE LET k == IF failures'[Len(failures')].source = "encodeMessage" THEN 2 ELSE 1
           before == reported \o SubSeq(NewlyReported, 1, k - 1)
       IN  { [reported |-> c.reported, resp |-> c.resp] :
               c \in { routeCatch(NewlyReported[k], resp, before, cf, FALSE) :
                         cf \in BOOLEAN } }

CanceledWhileWaiting ==
  /\ state = "canceled" /\ transport = "idle"
  /\ wire = NoWire /\ ~headersDelivered
  /\ \A i \in 1..Len(events) : events[i].type = "canceled"

\* C37: after a cancel() in state waitingForRequest the transport is never
\* started, nothing is sent or received, the stream stays canceled and emits
\* nothing but canceled.
C37_CancelWhileWaiting == [][CanceledWhileWaiting => CanceledWhileWaiting']_vars

\* the last attempt answered as a unary method does: ready, one message,
\* complete
LastAttemptCompleted ==
  LET n == Len(upstreamLog)
      k == getStreamCalls
  IN  /\ rCancelCalls = 0
      /\ n >= 3
      /\ upstreamLog[n] = UpEv("complete", 0, "", k)
      /\ upstreamLog[n - 1].type = "message" /\ upstreamLog[n - 1].attempt = k
      /\ upstreamLog[n - 2] = UpEv("ready", 0, "", k)
      /\ n > 3 => upstreamLog[n - 3].attempt # k

\* C38: a unary call through a retrying service fulfils with the response of
\* the attempt that completed, whatever the attempts before it did, also when
\* one of them became ready and delivered a message before its error.
C38_RetryingCallFulfils ==
  LastAttemptCompleted =>
    retryingCall(rEvents).promise = Fulfilled(upstreamLog[Len(upstreamLog) - 1].v)

\* what holds instead: the call fulfils when no attempt before the last has
\* delivered a message after its ready
C38_FulfilsWithoutEarlierMessage ==
  (LastAttemptCompleted /\ Len(ForwardedMessages(rEvents)) = 1) =>
    retryingCall(rEvents).promise = Fulfilled(upstreamLog[Len(upstreamLog) - 1].v)

\* cancel() is called in this step on a stream that is ready
CanceledWhenReady == cancelCalls' = cancelCalls + 1 /\ state = "ready"

\* the transport calls onChunk or onEnd in this step
TransportCallsBack ==
  \/ msgsSent' # msgsSent
  \/ trailerSent' # trailerSent
  \/ (transport = "started" /\ transport' = "ended")

\* C39: cancel() on a stream that is ready cancels the transport; a cancelled
\* transport stays cancelled and delivers no chunk and no end to the stream.
C39_CancelReleasesTransport ==
  [][/\ CanceledWhenReady => transport' = "cancelled"
     /\ transport = "cancelled" =>
          (transport' = "cancelled" /\ ~TransportCallsBack)]_vars
====
